---- MODULE Spec2Model ----
(***************************************************************************)
(* Model of the Trendyol -> Oblio invoice synchronisation orchestrator     *)
(* (InvoiceSyncService) together with the session part of                 *)
(* BrowserStorageService it reads and writes.                              *)
(*                                                                         *)
(* An action is one run of a handler from one await to the next: the code  *)
(* is single threaded, so everything between two awaits is atomic.         *)
(* Times are whole seconds since the start of the run.  Log entries keep   *)
(* the prefix of their id (the part before the Date.now() suffix) and      *)
(* their level.                                                            *)
(***************************************************************************)
EXTENDS Integers, Sequences, FiniteSets, TLC

(***************************************************************************)
(* Bounds of the model.                                                    *)
(***************************************************************************)
MaxTime == 2
MaxLogEntries == 1

(***************************************************************************)
(* Strings.  TLC implements Len, \o and SubSeq on strings, so messages are *)
(* kept as the texts the code builds and searched as the code searches.    *)
(***************************************************************************)
UpperCase == "ABCDEFGHIJKLMNOPQRSTUVWXYZ"
LowerCase == "abcdefghijklmnopqrstuvwxyz"

CharAt(s, i) == SubSeq(s, i, i)

LowerChar(ch) ==
  IF \E k \in 1..26 : CharAt(UpperCase, k) = ch
  THEN CharAt(LowerCase, CHOOSE k \in 1..26 : CharAt(UpperCase, k) = ch)
  ELSE ch

RECURSIVE toLowerCase(_)
toLowerCase(s) ==
  IF Len(s) = 0 THEN ""
  ELSE LowerChar(CharAt(s, 1)) \o toLowerCase(SubSeq(s, 2, Len(s)))

includes(s, kw) ==
  \E i \in 1..(Len(s) - Len(kw) + 1) : SubSeq(s, i, i + Len(kw) - 1) = kw

RECURSIVE join(_, _)
join(list, sep) ==
  IF Len(list) = 0 THEN ""
  ELSE IF Len(list) = 1 THEN list[1]
  ELSE list[1] \o sep \o join(Tail(list), sep)

(***************************************************************************)
(* Retry helpers of InvoiceSyncService.                                    *)
(***************************************************************************)
RECURSIVE pow2(_)
pow2(n) == IF n <= 0 THEN 1 ELSE 2 * pow2(n - 1)

min(a, b) == IF a <= b THEN a ELSE b

baseDelay == 2
maxDelay == 300

\* variant: the delay is not capped
calculateBackoffDelayUncapped(attempt) == baseDelay * pow2(attempt - 1)

calculateBackoffDelay(attempt) == min(baseDelay * pow2(attempt - 1), maxDelay)

\* variant: the timeout rule is tried before the network rule
extractErrorCodeTimeoutFirst(errorMessage) ==
  LET message == toLowerCase(errorMessage) IN
  IF includes(message, "timeout") \/ includes(message, "timed out")
    THEN "TIMEOUT_ERROR"
  ELSE IF includes(message, "network") \/ includes(message, "connection") \/ includes(message, "fetch")
    THEN "NETWORK_ERROR"
  ELSE IF includes(message, "rate limit") \/ includes(message, "too many requests") \/ includes(message, "429")
    THEN "RATE_LIMIT"
  ELSE IF includes(message, "server error") \/ includes(message, "500") \/ includes(message, "502") \/ includes(message, "503")
    THEN "SERVER_ERROR"
  ELSE IF includes(message, "temporary") \/ includes(message, "unavailable")
    THEN "TEMPORARY_ERROR"
  ELSE "NON_RETRYABLE_ERROR"

extractErrorCode(errorMessage) ==
  LET message == toLowerCase(errorMessage) IN
  IF includes(message, "network") \/ includes(message, "connection") \/ includes(message, "fetch")
    THEN "NETWORK_ERROR"
  ELSE IF includes(message, "rate limit") \/ includes(message, "too many requests") \/ includes(message, "429")
    THEN "RATE_LIMIT"
  ELSE IF includes(message, "server error") \/ includes(message, "500") \/ includes(message, "502") \/ includes(message, "503")
    THEN "SERVER_ERROR"
  ELSE IF includes(message, "timeout") \/ includes(message, "timed out")
    THEN "TIMEOUT_ERROR"
  ELSE IF includes(message, "temporary") \/ includes(message, "unavailable")
    THEN "TEMPORARY_ERROR"
  ELSE "NON_RETRYABLE_ERROR"

retryableErrors ==
  {"NETWORK_ERROR", "RATE_LIMIT", "SERVER_ERROR", "TIMEOUT_ERROR", "TEMPORARY_ERROR"}

(***************************************************************************)
(* JavaScript values.  null/undefined objects are the record Null; an      *)
(* absent optional property is a field the record does not have.           *)
(***************************************************************************)
Null == [null |-> TRUE]
IsNull(x) == DOMAIN x = {"null"}
Has(r, f) == f \in DOMAIN r

\* { ...r, ...u } : the fields of u override those of r
Merge(r, u) ==
  [f \in (DOMAIN r) \cup (DOMAIN u) |-> IF f \in DOMAIN u THEN u[f] ELSE r[f]]

RECURSIVE trimStart(_)
trimStart(s) ==
  IF Len(s) > 0 /\ CharAt(s, 1) = " " THEN trimStart(SubSeq(s, 2, Len(s))) ELSE s

RECURSIVE trimEnd(_)
trimEnd(s) ==
  IF Len(s) > 0 /\ CharAt(s, Len(s)) = " " THEN trimEnd(SubSeq(s, 1, Len(s) - 1)) ELSE s

trim(s) == trimEnd(trimStart(s))

\* Array.prototype.findIndex, given the positions whose element passes the
\* test: 1-based; 0 when nothing matches (-1 in the code)
findIndex(matching) ==
  IF matching = {} THEN 0 ELSE CHOOSE i \in matching : \A j \in matching : i <= j

\* Array.prototype.includes
arrayIncludes(list, x) == \E i \in 1..Len(list) : list[i] = x

(***************************************************************************)
(* Shipment packages (TrendyolShipmentPackage, the fields the service and  *)
(* the transform read).  Amounts are in minor units (1/100).               *)
(***************************************************************************)
PackageLine(name, amount, quantity, vatBaseAmount, currencyCode) ==
  [productName |-> name, amount |-> amount, quantity |-> quantity,
   vatBaseAmount |-> vatBaseAmount, currencyCode |-> currencyCode]

InvoiceAddress(firstName, lastName, company) ==
  [firstName |-> firstName, lastName |-> lastName, company |-> company,
   address1 |-> "Str. Test 1", city |-> "Bucuresti", countryCode |-> "RO"]

ShipmentPackage(id, status, address, lines) ==
  [id |-> id, orderId |-> 1000 + id, orderNumber |-> "ORD-" \o ToString(id),
   status |-> status, taxNumber |-> "", invoiceAddress |-> address, lines |-> lines]

GoodLine == PackageLine("Shirt", 10000, 2, 8403, "RON")
GoodAddress == InvoiceAddress("Ion", "Pop", "")
NoNameAddress == InvoiceAddress("", "", "")
BlankNameAddress == InvoiceAddress(" ", "", "")

Pkg1 == ShipmentPackage(1, "Created", GoodAddress, << GoodLine >>)
Pkg2 == ShipmentPackage(2, "Created", GoodAddress, << GoodLine >>)
Pkg2Awaiting == ShipmentPackage(2, "Awaiting", GoodAddress, << GoodLine >>)
Pkg2NoName == ShipmentPackage(2, "Picking", NoNameAddress, << GoodLine >>)
Pkg2BlankName == ShipmentPackage(2, "Shipped", BlankNameAddress, << GoodLine >>)

\* what trendyolClient.getAllShipmentPackages resolves with
FetchResults == { << >>, << Pkg1 >>, << Pkg2BlankName, Pkg1 >> }

\* the id lists a caller passes to processSelectedPackages; "3" is never
\* fetched, and << "1", "2" >> names the packages in the opposite order of the
\* fetch result that holds both
ProcessRequests == { << "1" >>, << "1", "2" >>, << "3" >> }

\* the ids a caller passes to retryFailedInvoice
RetryRequests == { "1", "2" }

(***************************************************************************)
(* Stored configuration (localStorage).                                    *)
(***************************************************************************)
GoodConfig == [oblio |-> [cif |-> "RO12345678", workStation |-> 1]]
TrendyolOnlyConfig == [trendyol |-> [supplierId |-> "1"]]
Configs == { GoodConfig, TrendyolOnlyConfig }

DefaultAutoRetryCount == 3
StoredSettings == [autoRetryCount |-> 2]

(***************************************************************************)
(* TransformService.  Only the errors of a validation are modelled: the    *)
(* orchestrator never reads the warnings.  A price is the fraction n/d; a  *)
(* VAT percentage is kept in hundredths of a percent; a date is a day      *)
(* number (toISOString().split('T')[0] of a valid Date is always a         *)
(* non-empty YYYY-MM-DD text, so only the order of two dates can fail).    *)
(***************************************************************************)
When(cond, msg) == IF cond THEN << msg >> ELSE << >>

SecondsPerDay == 86400

TransformConfig(config) ==
  [cif |-> config.oblio.cif, workStation |-> config.oblio.workStation,
   seriesName |-> "FACT", language |-> "RO",
   defaultVatPercentage |-> 19, defaultMeasuringUnit |-> "buc"]

RECURSIVE validateTrendyolPackageLines(_, _)
validateTrendyolPackageLines(lines, index) ==
  IF index > Len(lines) THEN << >>
  ELSE LET line == lines[index]
           prefix == "Line " \o ToString(index) \o ": "
       IN When(line.productName = "", prefix \o "Product name is required")
          \o When(line.amount <= 0, prefix \o "Amount must be greater than 0")
          \o When(line.quantity <= 0, prefix \o "Quantity must be greater than 0")
          \o validateTrendyolPackageLines(lines, index + 1)

validateTrendyolPackage(pkg) ==
  When(pkg.id = 0, "Package ID is required")
  \o When(pkg.orderId = 0, "Order ID is required")
  \o (IF ~Has(pkg, "invoiceAddress") THEN << "Invoice address is required" >>
      ELSE When(pkg.invoiceAddress.firstName = "" /\ pkg.invoiceAddress.lastName = ""
                /\ pkg.invoiceAddress.company = "",
                "Customer name or company name is required"))
  \o (IF ~Has(pkg, "lines") \/ Len(pkg.lines) = 0
      THEN << "Package must contain at least one product line" >>
      ELSE validateTrendyolPackageLines(pkg.lines, 1))

mapCountryCode(countryCode) ==
  CASE countryCode = "TR" -> "Turkey"
    [] countryCode = "RO" -> "Romania"
    [] countryCode = "BG" -> "Bulgaria"
    [] countryCode = "HU" -> "Hungary"
    [] countryCode = "CZ" -> "Czech Republic"
    [] countryCode = "SK" -> "Slovakia"
    [] countryCode = "PL" -> "Poland"
    [] countryCode = "HR" -> "Croatia"
    [] countryCode = "SI" -> "Slovenia"
    [] countryCode = "RS" -> "Serbia"
    [] countryCode = "BA" -> "Bosnia and Herzegovina"
    [] countryCode = "MK" -> "North Macedonia"
    [] countryCode = "AL" -> "Albania"
    [] countryCode = "ME" -> "Montenegro"
    [] countryCode = "XK" -> "Kosovo"
    [] OTHER -> countryCode

mapCustomerToOblioClient(pkg) ==
  LET invoiceAddress == pkg.invoiceAddress
      fullName == trim(invoiceAddress.firstName \o " " \o invoiceAddress.lastName)
  IN [cif |-> pkg.taxNumber,
      name |-> IF invoiceAddress.company # "" THEN invoiceAddress.company ELSE fullName,
      address |-> invoiceAddress.address1,
      city |-> invoiceAddress.city,
      country |-> mapCountryCode(invoiceAddress.countryCode),
      contact |-> fullName,
      vatPayer |-> pkg.taxNumber # ""]

\* Math.round(((amount - base) / base * 100) * 100), in hundredths of a percent
calculateVatPercentage(line, transformConfig) ==
  IF line.vatBaseAmount > 0 /\ line.amount > 0
  THEN (20000 * (line.amount - line.vatBaseAmount) + line.vatBaseAmount)
         \div (2 * line.vatBaseAmount)
  ELSE transformConfig.defaultVatPercentage * 100

mapPackageLineToOblioProduct(line, transformConfig) ==
  LET base == [name |-> line.productName,
               price |-> IF line.quantity > 0
                         THEN [n |-> line.amount, d |-> line.quantity]
                         ELSE [n |-> line.amount, d |-> 1],
               quantity |-> line.quantity,
               measuringUnit |-> transformConfig.defaultMeasuringUnit,
               vatPercentage |-> calculateVatPercentage(line, transformConfig),
               vatIncluded |-> TRUE,
               productType |-> "produs"]
  IN IF line.currencyCode # "" THEN Merge(base, [currency |-> line.currencyCode]) ELSE base

extractCurrency(lines) ==
  IF Len(lines) = 0 THEN "RON"
  ELSE IF trim(lines[1].currencyCode) = "" THEN "RON"
  ELSE lines[1].currencyCode

trendyolPackageToOblioInvoice(pkg, transformConfig, time) ==
  [cif |-> transformConfig.cif,
   client |-> mapCustomerToOblioClient(pkg),
   issueDate |-> time \div SecondsPerDay,
   dueDate |-> (time + 30 * 24 * 60 * 60) \div SecondsPerDay,
   currency |-> extractCurrency(pkg.lines),
   language |-> transformConfig.language,
   workStation |-> transformConfig.workStation,
   seriesName |-> transformConfig.seriesName,
   useStock |-> 0,
   products |-> [i \in 1..Len(pkg.lines) |->
                   mapPackageLineToOblioProduct(pkg.lines[i], transformConfig)]]

validateRequiredFields(invoice) ==
  When(trim(invoice.cif) = "", "CIF is required")
  \o When(trim(invoice.client.name) = "", "Client name is required")
  \o When(trim(invoice.currency) = "", "Currency is required")
  \o When(trim(invoice.language) = "", "Language is required")
  \o When(trim(invoice.seriesName) = "", "Series name is required")
  \o When(Len(invoice.products) = 0, "At least one product is required")

validateFormats(invoice) ==
  When(invoice.workStation < 1 \/ invoice.workStation > 999,
       "Work station must be between 1 and 999")

RECURSIVE totalValue(_)
\* sum of price * quantity; every term is a whole number of minor units
totalValue(products) ==
  IF Len(products) = 0 THEN 0
  ELSE (Head(products).price.n * Head(products).quantity) \div Head(products).price.d
       + totalValue(Tail(products))

validateBusinessRules(invoice) ==
  When(invoice.dueDate < invoice.issueDate, "Due date must be after issue date")
  \o When(Len(invoice.products) > 0 /\ totalValue(invoice.products) <= 0,
          "Total invoice value must be greater than 0")

RECURSIVE validateProducts(_, _)
validateProducts(products, index) ==
  IF index > Len(products) THEN << >>
  ELSE LET product == products[index]
           prefix == "Product " \o ToString(index) \o ": "
       IN When(trim(product.name) = "", prefix \o "Name is required")
          \o When(product.price.n <= 0, prefix \o "Price must be greater than 0")
          \o When(product.quantity <= 0, prefix \o "Quantity must be greater than 0")
          \o When(product.vatPercentage < 0 \/ product.vatPercentage > 10000,
                  prefix \o "VAT percentage must be between 0 and 100")
          \o validateProducts(products, index + 1)

validateTransformedData(invoice) ==
  validateRequiredFields(invoice) \o validateFormats(invoice)
  \o validateBusinessRules(invoice) \o validateProducts(invoice.products, 1)

(***************************************************************************)
(* State.                                                                  *)
(***************************************************************************)
VARIABLES
  session,        \* sessionStorage['trendyol-oblio-session'], Null when not set
  config,         \* the stored (decrypted) configuration, Null when not set
  settings,       \* localStorage['trendyol-oblio-settings'], Null when not set
  now,            \* the clock, in seconds
  calls,          \* the invocations of the service in progress or just finished
  completedOnce,  \* history: ids whose record was written 'completed' at some time
  attempts,       \* history: the pipeline attempts started for each package, by
                  \* processSelectedPackages and by retryFailedInvoice; Null in
                  \* the runs that do not count them
  dashboard       \* the fields of the Dashboard: isLoading, currentPackages,
                  \* filteredPackages

vars == << session, config, settings, now, calls, completedOnce, attempts, dashboard >>

\* the Dashboard after its constructor
NewDashboard ==
  [isLoading |-> FALSE, currentPackages |-> << >>, filteredPackages |-> << >>]

\* the package ids that can have a record
RecordIds == { "1", "2" }

Calls == {1, 2}

(***************************************************************************)
(* BrowserStorageService: the session part.                                *)
(***************************************************************************)
\* 'written' is history: the log entries added since the running step began
getDefaultSessionData ==
  [currentShipmentPackages |-> << >>, processedInvoices |-> << >>, syncLogs |-> << >>,
   lastFetchTime |-> -1, selectedPackageIds |-> << >>, written |-> << >>]

\* this.getSessionData() || this.getDefaultSessionData()
sessionOrDefault(s) == IF IsNull(s) THEN getDefaultSessionData ELSE s

LogEntry(idPrefix, level) == [id |-> idPrefix, level |-> level]

\* variant: a full log keeps its oldest entries and drops the new one
addLogEntryKeepsOldest(s, entry, capacity) ==
  LET sessionData == sessionOrDefault(s)
      logs == Append(sessionData.syncLogs, entry)
  IN [sessionData EXCEPT !.syncLogs =
        IF Len(logs) > capacity THEN SubSeq(logs, 1, capacity) ELSE logs,
        !.written = Append(@, entry)]

\* addLogEntry with the number of entries it keeps (syncLogs.slice(-capacity))
addLogEntryWithin(s, entry, capacity) ==
  LET sessionData == sessionOrDefault(s)
      logs == Append(sessionData.syncLogs, entry)
  IN [sessionData EXCEPT !.syncLogs =
        IF Len(logs) > capacity
        THEN SubSeq(logs, Len(logs) - capacity + 1, Len(logs))
        ELSE logs,
        !.written = Append(@, entry)]

\* the code keeps the last 1000 entries; the model keeps the last MaxLogEntries
addLogEntry(s, entry) == addLogEntryWithin(s, entry, MaxLogEntries)

\* variant: the fetched packages are stored in fresh session data
updateSessionPackagesFresh(s, packages, time) ==
  [getDefaultSessionData EXCEPT !.currentShipmentPackages = packages, !.lastFetchTime = time]

updateSessionPackages(s, packages, time) ==
  [sessionOrDefault(s) EXCEPT !.currentShipmentPackages = packages, !.lastFetchTime = time]

\* variant: an existing record is updated with the fields of the new one
addProcessedInvoiceMerges(s, invoice) ==
  LET sessionData == sessionOrDefault(s)
      existingIndex ==
        findIndex({i \in 1..Len(sessionData.processedInvoices) :
                     sessionData.processedInvoices[i].trendyolOrderId = invoice.trendyolOrderId})
  IN IF existingIndex >= 1
     THEN [sessionData EXCEPT !.processedInvoices[existingIndex] = Merge(@, invoice)]
     ELSE [sessionData EXCEPT !.processedInvoices = Append(@, invoice)]

addProcessedInvoice(s, invoice) ==
  LET sessionData == sessionOrDefault(s)
      existingIndex ==
        findIndex({i \in 1..Len(sessionData.processedInvoices) :
                     sessionData.processedInvoices[i].trendyolOrderId = invoice.trendyolOrderId})
  IN IF existingIndex >= 1
     THEN [sessionData EXCEPT !.processedInvoices[existingIndex] = invoice]
     ELSE [sessionData EXCEPT !.processedInvoices = Append(@, invoice)]

\* a property of an 'updates' object: Val(x) for a value, Undefined for an
\* explicit undefined
Val(x) == [v |-> x]
Undefined == [undefined |-> TRUE]
Provided(updates, f) == Has(updates, f) /\ ~Has(updates[f], "undefined")

OptionalInvoiceFields ==
  {"oblioInvoiceId", "errorMessage", "retryCount", "lastRetryAt", "nextRetryAt"}

updateProcessedInvoice(s, orderId, updates) ==
  LET sessionData == sessionOrDefault(s)
      invoiceIndex ==
        findIndex({i \in 1..Len(sessionData.processedInvoices) :
                     sessionData.processedInvoices[i].trendyolOrderId = orderId})
      existingInvoice == sessionData.processedInvoices[invoiceIndex]
      kept == {f \in OptionalInvoiceFields : Provided(updates, f) \/ Has(existingInvoice, f)}
      updatedInvoice ==
        [f \in {"trendyolOrderId", "processedAt", "status"} \cup kept |->
           IF f = "trendyolOrderId" THEN existingInvoice.trendyolOrderId
           ELSE IF Provided(updates, f) THEN updates[f].v
           ELSE existingInvoice[f]]
  IN IF invoiceIndex >= 1
     THEN [sessionData EXCEPT !.processedInvoices[invoiceIndex] = updatedInvoice]
     ELSE s

getProcessedInvoice(s, orderId) ==
  IF IsNull(s) THEN Null
  ELSE LET index == findIndex({i \in 1..Len(s.processedInvoices) :
                                 s.processedInvoices[i].trendyolOrderId = orderId})
       IN IF index >= 1 THEN s.processedInvoices[index] ELSE Null

getAutoRetryCount(appSettings) ==
  IF IsNull(appSettings) THEN DefaultAutoRetryCount ELSE appSettings.autoRetryCount

CompletedIds(s) ==
  IF IsNull(s) THEN {}
  ELSE { s.processedInvoices[i].trendyolOrderId :
           i \in { j \in 1..Len(s.processedInvoices) : s.processedInvoices[j].status = "completed" } }

(***************************************************************************)
(* What the collaborators can answer.                                      *)
(***************************************************************************)
InvoiceLink == "https://www.oblio.eu/docs/1"

\* OblioInvoiceResponse, the shape the accounting client declares
TypedResponse(link) ==
  [status |-> 200, statusMessage |-> "Success",
   data |-> [seriesName |-> "FACT", number |-> "001", link |-> link]]

\* the same with the link also at the top level
TopLinkResponse(link) == Merge(TypedResponse(link), [link |-> link])

\* a flat document: series, number and link, no 'data'
FlatResponse(link) == [seriesName |-> "FACT", number |-> "001", link |-> link]

OblioResponses ==
  { TypedResponse(InvoiceLink), TypedResponse(""), TopLinkResponse(InvoiceLink),
    FlatResponse(InvoiceLink) }

CreateErrors == { "Network error: Unable to connect to Oblio API" }

LinkErrors == { "Trendyol server error: Please try again later" }

FetchErrors == { "Authentication failed: Invalid API credentials" }

(***************************************************************************)
(* An invocation: the locals of the async function that survive an await,  *)
(* its position (pc), and how it ended.  remoteCalls, touched, writes and   *)
(* logged are history: the collaborator calls it made and how each         *)
(* settled, the ids whose record it wrote, and the status changes its      *)
(* storage writes made and the log entries it added since its last await,  *)
(* in order.                                                               *)
(***************************************************************************)
NewCall ==
  [op |-> "none", pc |-> "idle", packageIds |-> << >>, packages |-> << >>,
   queue |-> << >>, totalOrders |-> 0, cur |-> Null, cfg |-> Null, resp |-> Null,
   successCount |-> 0, failureCount |-> 0, errors |-> << >>,
   packageId |-> "", processedInvoice |-> Null, maxRetries |-> 0,
   newRetryCount |-> 0, nextRetryAt |-> 0,
   outcome |-> "none", error |-> "", result |-> Null,
   lookupErrors |-> {},
   remoteCalls |-> << >>, touched |-> {}, writes |-> << >>, logged |-> << >>]

Suspended(call) == call.pc \notin {"idle", "done"}

\* the caller may start an invocation in slot c; serial callers wait for
\* the previous invocation to finish
CanStart(c, serial) ==
  /\ ~Suspended(calls[c])
  /\ serial => (c = 1 /\ \A d \in Calls : ~Suspended(calls[d]))

\* the function is left: its locals are gone, what it returned or threw stays
Left == [pc |-> "done", queue |-> << >>, cur |-> Null, cfg |-> Null, resp |-> Null]
Returned(call, fields) == Merge(call, Merge(Merge(Left, [outcome |-> "returned"]), fields))
Thrown(call, message) == Merge(call, Merge(Left, [outcome |-> "thrown", error |-> message]))

\* a call to a collaborator that has not settled yet
RemoteCall(api, packageId) ==
  [api |-> api, packageId |-> packageId, outcome |-> "pending", value |-> Null]

\* the invocation in slot c as it resumes after an await
Resumed(c) == [calls[c] EXCEPT !.writes = << >>]

\* the invocation in slot c as it resumes after the collaborator call it
\* awaited resolved with a value or rejected with an error
Settled(c, outcome, value) ==
  LET call == Resumed(c)
      last == Len(call.remoteCalls)
  IN [call EXCEPT !.remoteCalls[last] = [@ EXCEPT !.outcome = outcome, !.value = value]]

Rejection(message) == [message |-> message]

\* the call after a storage write at the named site took the session from
\* 'before' to 'after'
Wrote(call, site, orderId, before, after) ==
  [call EXCEPT !.writes =
     Append(@, [site |-> site, orderId |-> orderId,
                before |-> IF IsNull(getProcessedInvoice(before, orderId)) THEN "none"
                           ELSE getProcessedInvoice(before, orderId).status,
                after |-> IF IsNull(getProcessedInvoice(after, orderId)) THEN "none"
                          ELSE getProcessedInvoice(after, orderId).status])]

\* the number of status changes the call wrote at a site for a package
WritesAt(call, site, orderId) ==
  Cardinality({ i \in 1..Len(call.writes) :
                  call.writes[i].site = site /\ call.writes[i].orderId = orderId })

\* the attempts after the call's step: an attempt starts where the record is
\* written pending
Counted(call) ==
  IF IsNull(attempts) THEN attempts
  ELSE [orderId \in RecordIds |->
          [process |-> attempts[orderId].process
                         + WritesAt(call, "process:pending", orderId),
           retry |-> attempts[orderId].retry
                       + WritesAt(call, "retry:accepted", orderId)]]

\* the step of slot c ends: the session is stored and the log entries the
\* step added go to the history of the invocation
Commit(s, c, call) ==
  /\ session' = IF IsNull(s) THEN s ELSE [s EXCEPT !.written = << >>]
  /\ calls' = [calls EXCEPT ![c] =
                 [call EXCEPT !.logged = IF IsNull(s) THEN << >> ELSE s.written]]
  /\ completedOnce' = completedOnce \cup CompletedIds(s)
  /\ attempts' = Counted(call)
  /\ UNCHANGED << config, settings, now, dashboard >>

(***************************************************************************)
(* InvoiceSyncService.fetchAllShipmentPackages                             *)
(***************************************************************************)
FetchStart(c, serial) ==
  /\ CanStart(c, serial)
  /\ Commit(addLogEntry(session, LogEntry("fetch", "info")), c,
            Merge(NewCall, [op |-> "fetch", pc |-> "awaitFetch"]))

FetchResolved(c, packages) ==
  /\ calls[c].op = "fetch" /\ calls[c].pc = "awaitFetch"
  /\ LET s1 == addLogEntry(session, LogEntry("fetch-complete", "info"))
         s2 == updateSessionPackages(s1, packages, now)
     IN Commit(s2, c, Returned(calls[c], [packages |-> packages]))

\* variant: a failed fetch empties the working set
FetchRejectedClearsPackages(c, message) ==
  /\ calls[c].op = "fetch" /\ calls[c].pc = "awaitFetch"
  /\ LET s1 == updateSessionPackages(session, << >>, now)
     IN Commit(addLogEntry(s1, LogEntry("fetch-error", "error")), c,
               Thrown(calls[c], "Failed to fetch shipment packages: " \o message))

FetchRejected(c, message) ==
  /\ calls[c].op = "fetch" /\ calls[c].pc = "awaitFetch"
  /\ Commit(addLogEntry(session, LogEntry("fetch-error", "error")), c,
            Thrown(calls[c], "Failed to fetch shipment packages: " \o message))

(***************************************************************************)
(* InvoiceSyncService.filterPackagesWithoutInvoices / checkInvoiceLinkStatus *)
(***************************************************************************)
\* variant: any record counts as an invoice
checkAnyRecord(s, shipmentPackage, lookupErrors) ==
  IF ToString(shipmentPackage.id) \in lookupErrors THEN FALSE
  ELSE ~IsNull(getProcessedInvoice(s, ToString(shipmentPackage.id)))

\* variant: a package whose record cannot be looked up counts as invoiced
checkAssumesInvoiced(s, shipmentPackage, lookupErrors) ==
  LET processedInvoice == getProcessedInvoice(s, ToString(shipmentPackage.id))
  IN IF ToString(shipmentPackage.id) \in lookupErrors THEN TRUE
     ELSE IF ~IsNull(processedInvoice) THEN processedInvoice.status = "completed" ELSE FALSE

\* lookupErrors holds the ids for which storageService.getProcessedInvoice
\* raises; the catch block answers false
checkInvoiceLinkStatus(s, shipmentPackage, lookupErrors) ==
  LET processedInvoice == getProcessedInvoice(s, ToString(shipmentPackage.id))
  IN IF ToString(shipmentPackage.id) \in lookupErrors THEN FALSE
     ELSE IF ~IsNull(processedInvoice) THEN processedInvoice.status = "completed" ELSE FALSE

\* the session after the checks of the packages: the catch block of
\* checkInvoiceLinkStatus adds a warning for every lookup that raised
RECURSIVE checkInvoiceLinkStatusLogs(_, _, _)
checkInvoiceLinkStatusLogs(s, packages, lookupErrors) ==
  IF Len(packages) = 0 THEN s
  ELSE LET pkg == Head(packages)
           s1 == IF pkg.status # "Awaiting" /\ ToString(pkg.id) \in lookupErrors
                 THEN addLogEntry(s, LogEntry("check-status-error", "warn"))
                 ELSE s
       IN checkInvoiceLinkStatusLogs(s1, Tail(packages), lookupErrors)

\* variant: the 'Awaiting' status is not looked at
filterIgnoringAwaiting(s, packages, lookupErrors) ==
  LET Keep(pkg) ==
        LET processedInvoice == getProcessedInvoice(s, ToString(pkg.id))
        IN \/ ToString(pkg.id) \in lookupErrors
           \/ IsNull(processedInvoice) \/ processedInvoice.status # "completed"
  IN SelectSeq(packages, Keep)

filterPackagesWithoutInvoices(s, packages, lookupErrors) ==
  LET Keep(pkg) == IF pkg.status = "Awaiting" THEN FALSE
                   ELSE ~checkInvoiceLinkStatus(s, pkg, lookupErrors)
  IN SelectSeq(packages, Keep)

Filter(c, serial, packages, lookupErrors) ==
  /\ CanStart(c, serial)
  /\ LET s1 == addLogEntry(session, LogEntry("filter", "info"))
         filteredPackages == filterPackagesWithoutInvoices(s1, packages, lookupErrors)
         s2 == checkInvoiceLinkStatusLogs(s1, packages, lookupErrors)
         s3 == addLogEntry(s2, LogEntry("filter-complete", "info"))
     IN Commit(s3, c, Returned(Merge(NewCall, [op |-> "filter", packages |-> packages,
                                               lookupErrors |-> lookupErrors]),
                                [result |-> [filteredPackages |-> filteredPackages]]))

(***************************************************************************)
(* InvoiceSyncService.processSelectedPackages                              *)
(***************************************************************************)
NoSessionMessage == "No shipment packages found in session. Please fetch packages first."
NoMatchMessage == "No matching packages found for the provided IDs"
NoConfigMessage == "Oblio configuration not found. Please configure API credentials first."
NoLinkMessage == "Oblio invoice created but no link returned"
\* reading oblioInvoice.data.seriesName when the response has no 'data'
NoDataMessage == "Cannot read properties of undefined (reading 'seriesName')"

Step(s, call) == [session |-> s, call |-> call]

\* variant: the catch block counts and logs the failure, the record is not written
processCatchKeepsRecord(s, call, errorName, errorMessage, time) ==
  LET packageId == ToString(call.cur.id)
      s1 == addLogEntry(s, LogEntry("process-error-" \o packageId, "error"))
  IN [session |-> s1,
      call |-> [call EXCEPT
                  !.failureCount = @ + 1,
                  !.errors = Append(@, [orderId |-> packageId, errorCode |-> errorName,
                                         message |-> errorMessage])]]

\* variant: the catch block reports every failure as an unknown error
processCatchUnknownError(s, call, errorName, errorMessage, time) ==
  LET packageId == ToString(call.cur.id)
      s1 == updateProcessedInvoice(s, packageId,
              [status |-> Val("failed"), errorMessage |-> Val("Unknown error occurred"),
               processedAt |-> Val(time)])
      s2 == addLogEntry(s1, LogEntry("process-error-" \o packageId, "error"))
  IN Step(s2, [Wrote(call, "process:failed", packageId, s, s1) EXCEPT
                 !.failureCount = @ + 1,
                 !.errors = Append(@, [orderId |-> packageId, errorCode |-> errorName,
                                        message |-> "Unknown error occurred"])])

\* the catch block of the loop body
processCatch(s, call, errorName, errorMessage, time) ==
  LET packageId == ToString(call.cur.id)
      s1 == updateProcessedInvoice(s, packageId,
              [status |-> Val("failed"), errorMessage |-> Val(errorMessage),
               processedAt |-> Val(time)])
      s2 == addLogEntry(s1, LogEntry("process-error-" \o packageId, "error"))
  IN Step(s2, [Wrote(call, "process:failed", packageId, s, s1) EXCEPT
                 !.failureCount = @ + 1,
                 !.errors = Append(@, [orderId |-> packageId, errorCode |-> errorName,
                                        message |-> errorMessage])])

\* the for loop, from the next package to process up to the next await
\* (createInvoice) or to the return of the function
RECURSIVE processLoop(_, _, _)
processLoop(s, call, time) ==
  IF Len(call.queue) = 0
  THEN LET result == [totalOrders |-> call.totalOrders, successCount |-> call.successCount,
                      failureCount |-> call.failureCount, errors |-> call.errors]
           s1 == addLogEntry(s, LogEntry("process-complete",
                   IF call.successCount = call.totalOrders THEN "info" ELSE "warn"))
       IN Step(s1, Returned(call, [result |-> result, cur |-> Null]))
  ELSE LET pkg == Head(call.queue)
           packageId == ToString(pkg.id)
           s1 == addLogEntry(s, LogEntry("process-package-" \o packageId, "info"))
           s2 == addProcessedInvoice(s1, [trendyolOrderId |-> packageId,
                                          status |-> "pending", processedAt |-> time])
           call1 == [Wrote(call, "process:pending", packageId, s1, s2) EXCEPT
                       !.queue = Tail(@), !.cur = pkg, !.touched = @ \cup {packageId}]
           packageValidation == validateTrendyolPackage(pkg)
           oblioInvoiceRequest ==
             trendyolPackageToOblioInvoice(pkg, TransformConfig(call.cfg), time)
           invoiceValidation == validateTransformedData(oblioInvoiceRequest)
           failed(message) ==
             LET f == processCatch(s2, call1, "Error", message, time)
             IN processLoop(f.session, f.call, time)
       IN IF Len(packageValidation) > 0
          THEN failed("Package validation failed: " \o join(packageValidation, ", "))
          ELSE IF Len(invoiceValidation) > 0
          THEN failed("Invoice validation failed: " \o join(invoiceValidation, ", "))
          ELSE Step(addLogEntry(s2, LogEntry("create-invoice-" \o packageId, "info")),
                    [call1 EXCEPT !.pc = "awaitCreate",
                                  !.remoteCalls = Append(@, RemoteCall("createInvoice", packageId))])

CommitStep(c, step) == Commit(step.session, c, step.call)

\* variant: the selected packages are marked pending before the
\* configuration is read
ProcessStartMarksPending(c, serial, packageIds) ==
  /\ CanStart(c, serial)
  /\ LET call == Merge(NewCall, [op |-> "process", packageIds |-> packageIds])
         s1 == addLogEntry(session, LogEntry("process-start", "info"))
         sessionData == s1
         Selected(pkg) == arrayIncludes(packageIds, ToString(pkg.id))
         packagesToProcess == SelectSeq(sessionData.currentShipmentPackages, Selected)
     IN IF IsNull(sessionData)
        THEN Commit(s1, c, Thrown(call, NoSessionMessage))
        ELSE IF Len(packagesToProcess) = 0
        THEN Commit(s1, c, Thrown(call, NoMatchMessage))
        ELSE Commit(addProcessedInvoice(s1,
                      [trendyolOrderId |-> ToString(Head(packagesToProcess).id),
                       status |-> "pending", processedAt |-> now]),
                    c, Merge(call, [pc |-> "awaitConfig", cfg |-> config,
                                    queue |-> packagesToProcess,
                                    totalOrders |-> Len(packagesToProcess)]))

ProcessStart(c, serial, packageIds) ==
  /\ CanStart(c, serial)
  /\ LET call == Merge(NewCall, [op |-> "process", packageIds |-> packageIds])
         s1 == addLogEntry(session, LogEntry("process-start", "info"))
         sessionData == s1
         Selected(pkg) == arrayIncludes(packageIds, ToString(pkg.id))
         packagesToProcess == SelectSeq(sessionData.currentShipmentPackages, Selected)
     IN IF IsNull(sessionData)
        THEN Commit(s1, c, Thrown(call, NoSessionMessage))
        ELSE IF Len(packagesToProcess) = 0
        THEN Commit(s1, c, Thrown(call, NoMatchMessage))
        ELSE Commit(s1, c, Merge(call, [pc |-> "awaitConfig", cfg |-> config,
                                        queue |-> packagesToProcess,
                                        totalOrders |-> Len(packagesToProcess)]))

ProcessConfigResolved(c) ==
  /\ calls[c].op = "process" /\ calls[c].pc = "awaitConfig"
  /\ IF IsNull(calls[c].cfg) \/ ~Has(calls[c].cfg, "oblio")
     THEN Commit(session, c, Thrown(Resumed(c), NoConfigMessage))
     ELSE Commit(session, c, [Resumed(c) EXCEPT !.pc = "awaitImport"])

ProcessImportResolved(c) ==
  /\ calls[c].op = "process" /\ calls[c].pc = "awaitImport"
  /\ CommitStep(c, processLoop(session, Resumed(c), now))

ProcessCreateResolved(c, oblioInvoice) ==
  /\ calls[c].op = "process" /\ calls[c].pc = "awaitCreate"
  /\ LET call == Settled(c, "resolved", oblioInvoice)
         packageId == ToString(call.cur.id)
         failed(errorName, message) ==
           LET f == processCatch(session, call, errorName, message, now)
           IN processLoop(f.session, f.call, now)
     IN IF ~(Has(oblioInvoice, "link") /\ oblioInvoice.link # "")
        THEN CommitStep(c, failed("Error", NoLinkMessage))
        ELSE IF ~Has(oblioInvoice, "data")
        THEN CommitStep(c, failed("TypeError", NoDataMessage))
        ELSE LET s1 == addLogEntry(session, LogEntry("invoice-created-" \o packageId, "info"))
                 s2 == addLogEntry(s1, LogEntry("send-link-" \o packageId, "info"))
             IN Commit(s2, c, [call EXCEPT !.pc = "awaitLink", !.resp = oblioInvoice,
                                 !.remoteCalls = Append(@, RemoteCall("sendInvoiceLinkToOrder", packageId))])

\* variant: after a rejected createInvoice the loop goes on to the next
\* package without writing the failure
ProcessCreateRejectedSkips(c, message) ==
  /\ calls[c].op = "process" /\ calls[c].pc = "awaitCreate"
  /\ CommitStep(c, processLoop(session,
       [Settled(c, "rejected", Rejection(message)) EXCEPT !.failureCount = @ + 1], now))

\* variant: a rejected createInvoice escapes the loop and ends the call
ProcessCreateRejectedPropagates(c, message) ==
  /\ calls[c].op = "process" /\ calls[c].pc = "awaitCreate"
  /\ Commit(session, c, Thrown(Settled(c, "rejected", Rejection(message)), message))

ProcessCreateRejected(c, message) ==
  /\ calls[c].op = "process" /\ calls[c].pc = "awaitCreate"
  /\ LET f == processCatch(session, Settled(c, "rejected", Rejection(message)), "Error", message, now)
     IN CommitStep(c, processLoop(f.session, f.call, now))

\* variant: the completed package is not counted in successCount
ProcessLinkResolvedUncounted(c) ==
  /\ calls[c].op = "process" /\ calls[c].pc = "awaitLink"
  /\ LET call == Settled(c, "resolved", Null)
         packageId == ToString(call.cur.id)
         oblioInvoice == call.resp
         s1 == updateProcessedInvoice(session, packageId,
                 [oblioInvoiceId |-> Val(oblioInvoice.data.seriesName \o oblioInvoice.data.number),
                  status |-> Val("completed"), processedAt |-> Val(now)])
         s2 == addLogEntry(s1, LogEntry("process-success-" \o packageId, "info"))
     IN CommitStep(c, processLoop(s2, [Wrote(call, "process:completed", packageId, session, s1)
                                         EXCEPT !.resp = Null], now))

ProcessLinkResolved(c) ==
  /\ calls[c].op = "process" /\ calls[c].pc = "awaitLink"
  /\ LET call == Settled(c, "resolved", Null)
         packageId == ToString(call.cur.id)
         oblioInvoice == call.resp
         s1 == updateProcessedInvoice(session, packageId,
                 [oblioInvoiceId |-> Val(oblioInvoice.data.seriesName \o oblioInvoice.data.number),
                  status |-> Val("completed"), processedAt |-> Val(now)])
         s2 == addLogEntry(s1, LogEntry("process-success-" \o packageId, "info"))
     IN CommitStep(c, processLoop(s2, [Wrote(call, "process:completed", packageId, session, s1)
                                         EXCEPT !.successCount = @ + 1, !.resp = Null], now))

\* variant: a rejected sendInvoiceLinkToOrder is swallowed and the package
\* counts as processed
ProcessLinkRejectedCompletes(c, message) ==
  /\ calls[c].op = "process" /\ calls[c].pc = "awaitLink"
  /\ LET call == Settled(c, "rejected", Rejection(message))
         packageId == ToString(call.cur.id)
         oblioInvoice == call.resp
         s1 == updateProcessedInvoice(session, packageId,
                 [oblioInvoiceId |-> Val(oblioInvoice.data.seriesName \o oblioInvoice.data.number),
                  status |-> Val("completed"), processedAt |-> Val(now)])
         s2 == addLogEntry(s1, LogEntry("process-success-" \o packageId, "info"))
     IN CommitStep(c, processLoop(s2, [Wrote(call, "process:completed", packageId, session, s1)
                                         EXCEPT !.successCount = @ + 1, !.resp = Null], now))

ProcessLinkRejected(c, message) ==
  /\ calls[c].op = "process" /\ calls[c].pc = "awaitLink"
  /\ LET f == processCatch(session, [Settled(c, "rejected", Rejection(message)) EXCEPT !.resp = Null], "Error", message, now)
     IN CommitStep(c, processLoop(f.session, f.call, now))

(***************************************************************************)
(* InvoiceSyncService.retryFailedInvoice                                   *)
(***************************************************************************)
\* variant: the catch block writes a fresh failed record over the old one
retryCatchReplacesRecord(s, call, errorMessage, time) ==
  LET s1 == addProcessedInvoice(s, [trendyolOrderId |-> call.packageId, status |-> "failed",
                                    errorMessage |-> errorMessage, processedAt |-> time])
      s2 == addLogEntry(s1, LogEntry("retry-failed-" \o call.packageId, "error"))
  IN [session |-> s2, call |-> Thrown(call, errorMessage)]

\* the catch block of the retried pipeline: record the failure, re-throw
retryCatch(s, call, errorMessage, time) ==
  LET s1 == updateProcessedInvoice(s, call.packageId,
              [status |-> Val("failed"), errorMessage |-> Val(errorMessage),
               processedAt |-> Val(time)])
      s2 == addLogEntry(s1, LogEntry("retry-failed-" \o call.packageId, "error"))
  IN Step(s2, Thrown(Wrote(call, "retry:failed", call.packageId, s, s1), errorMessage))

\* variant: the accepting update counts and schedules the retry, the status
\* stays failed
retryAcceptKeepsStatus(s, packageId, newRetryCount, nextRetryAt, time) ==
  updateProcessedInvoice(s, packageId,
    [retryCount |-> Val(newRetryCount),
     lastRetryAt |-> Val(time), nextRetryAt |-> Val(nextRetryAt),
     errorMessage |-> Undefined])

\* variant: the accepting update schedules the next retry, the attempt is not counted
retryAcceptUncounted(s, packageId, newRetryCount, nextRetryAt, time) ==
  updateProcessedInvoice(s, packageId,
    [status |-> Val("pending"), lastRetryAt |-> Val(time), nextRetryAt |-> Val(nextRetryAt)])

\* the update that accepts the retry
retryAccept(s, packageId, newRetryCount, nextRetryAt, time) ==
  updateProcessedInvoice(s, packageId,
    [status |-> Val("pending"), retryCount |-> Val(newRetryCount),
     lastRetryAt |-> Val(time), nextRetryAt |-> Val(nextRetryAt),
     errorMessage |-> Undefined])

\* the update after the retried pipeline succeeded
retryComplete(s, packageId, oblioInvoice, time) ==
  updateProcessedInvoice(s, packageId,
    [oblioInvoiceId |-> Val(oblioInvoice.data.seriesName \o oblioInvoice.data.number),
     status |-> Val("completed"), processedAt |-> Val(time),
     nextRetryAt |-> Undefined])

\* variant: the number of attempts is not checked
retryGateNoLimit(processedInvoice, maxRetries, packageId, time) ==
  LET errorCode ==
        extractErrorCode(IF Has(processedInvoice, "errorMessage")
                         THEN processedInvoice.errorMessage ELSE "")
  IN IF IsNull(processedInvoice)
     THEN "No processed invoice record found for package " \o packageId
     ELSE IF processedInvoice.status # "failed"
     THEN "Cannot retry invoice " \o packageId \o " - current status is "
          \o processedInvoice.status
     ELSE IF Has(processedInvoice, "nextRetryAt") /\ time < processedInvoice.nextRetryAt
     THEN "Must wait " \o ToString(processedInvoice.nextRetryAt - time)
          \o " seconds before retrying package " \o packageId
     ELSE IF errorCode \notin retryableErrors
     THEN "Error for package " \o packageId \o " is not retryable: " \o errorCode
     ELSE ""

\* variant: the backoff window is not checked
retryGateNoBackoff(processedInvoice, maxRetries, packageId, time) ==
  LET currentRetryCount ==
        IF Has(processedInvoice, "retryCount") THEN processedInvoice.retryCount ELSE 0
      errorCode ==
        extractErrorCode(IF Has(processedInvoice, "errorMessage")
                         THEN processedInvoice.errorMessage ELSE "")
  IN IF IsNull(processedInvoice)
     THEN "No processed invoice record found for package " \o packageId
     ELSE IF processedInvoice.status # "failed"
     THEN "Cannot retry invoice " \o packageId \o " - current status is "
          \o processedInvoice.status
     ELSE IF currentRetryCount >= maxRetries
     THEN "Maximum retry attempts (" \o ToString(maxRetries)
          \o ") exceeded for package " \o packageId
     ELSE IF errorCode \notin retryableErrors
     THEN "Error for package " \o packageId \o " is not retryable: " \o errorCode
     ELSE ""

\* the checks that gate a retry, in the order of the code: the message of
\* the first one that rejects, "" when all of them pass
retryGate(processedInvoice, maxRetries, packageId, time) ==
  LET currentRetryCount ==
        IF Has(processedInvoice, "retryCount") THEN processedInvoice.retryCount ELSE 0
      errorCode ==
        extractErrorCode(IF Has(processedInvoice, "errorMessage")
                         THEN processedInvoice.errorMessage ELSE "")
  IN IF IsNull(processedInvoice)
     THEN "No processed invoice record found for package " \o packageId
     ELSE IF processedInvoice.status # "failed"
     THEN "Cannot retry invoice " \o packageId \o " - current status is "
          \o processedInvoice.status
     ELSE IF currentRetryCount >= maxRetries
     THEN "Maximum retry attempts (" \o ToString(maxRetries)
          \o ") exceeded for package " \o packageId
     ELSE IF Has(processedInvoice, "nextRetryAt") /\ time < processedInvoice.nextRetryAt
     THEN "Must wait " \o ToString(processedInvoice.nextRetryAt - time)
          \o " seconds before retrying package " \o packageId
     ELSE IF errorCode \notin retryableErrors
     THEN "Error for package " \o packageId \o " is not retryable: " \o errorCode
     ELSE ""

\* variant: the attempt is counted and scheduled before the checks run
retryBeginCountsFirst(s, storedConfig, appSettings, packageId, time) ==
  LET maxRetries == getAutoRetryCount(appSettings)
      s1 == addLogEntry(s, LogEntry("retry-start-" \o packageId, "info"))
      processedInvoice == getProcessedInvoice(s1, packageId)
      call == Merge(NewCall, [op |-> "retry", packageId |-> packageId,
                              maxRetries |-> maxRetries,
                              processedInvoice |-> processedInvoice])
      rejection == retryGate(processedInvoice, maxRetries, packageId, time)
      index == findIndex({i \in 1..Len(s1.currentShipmentPackages) :
                            ToString(s1.currentShipmentPackages[i].id) = packageId})
      newRetryCount ==
        (IF Has(processedInvoice, "retryCount") THEN processedInvoice.retryCount ELSE 0) + 1
      nextRetryAt == time + calculateBackoffDelay(newRetryCount)
      s2 == updateProcessedInvoice(s1, packageId,
              [retryCount |-> Val(newRetryCount), lastRetryAt |-> Val(time),
               nextRetryAt |-> Val(nextRetryAt)])
  IN IF rejection # ""
     THEN [session |-> s2, call |-> Thrown(call, rejection)]
     ELSE IF index = 0
     THEN [session |-> s2, call |-> Thrown(call,
            "Package " \o packageId \o " not found in current session data")]
     ELSE [session |-> updateProcessedInvoice(s2, packageId, [status |-> Val("pending")]),
           call |-> Merge(call, [pc |-> "awaitConfig", cfg |-> storedConfig,
                                 cur |-> s1.currentShipmentPackages[index],
                                 newRetryCount |-> newRetryCount,
                                 nextRetryAt |-> nextRetryAt,
                                 touched |-> {packageId}])]

\* retryFailedInvoice from its entry to its first await (or to the throw of
\* a check that rejects)
retryBegin(s, storedConfig, appSettings, packageId, time) ==
  LET maxRetries == getAutoRetryCount(appSettings)
      s1 == addLogEntry(s, LogEntry("retry-start-" \o packageId, "info"))
      processedInvoice == getProcessedInvoice(s1, packageId)
      call == Merge(NewCall, [op |-> "retry", packageId |-> packageId,
                              maxRetries |-> maxRetries,
                              processedInvoice |-> processedInvoice])
      rejection == retryGate(processedInvoice, maxRetries, packageId, time)
      sessionData == s1
      index == findIndex({i \in 1..Len(sessionData.currentShipmentPackages) :
                            ToString(sessionData.currentShipmentPackages[i].id) = packageId})
      currentRetryCount ==
        IF Has(processedInvoice, "retryCount") THEN processedInvoice.retryCount ELSE 0
      newRetryCount == currentRetryCount + 1
      backoffDelay == calculateBackoffDelay(newRetryCount)
      nextRetryAt == time + backoffDelay
      s2 == retryAccept(s1, packageId, newRetryCount, nextRetryAt, time)
  IN IF rejection # ""
     THEN Step(s1, Thrown(call, rejection))
     ELSE IF IsNull(sessionData)
     THEN Step(s1, Thrown(call, NoSessionMessage))
     ELSE IF index = 0
     THEN Step(s1, Thrown(call,
            "Package " \o packageId \o " not found in current session data"))
     ELSE Step(s2,
               Merge(Wrote(call, "retry:accepted", packageId, s1, s2),
                           [pc |-> "awaitConfig", cfg |-> storedConfig,
                            cur |-> sessionData.currentShipmentPackages[index],
                            newRetryCount |-> newRetryCount,
                            nextRetryAt |-> nextRetryAt,
                            touched |-> {packageId}]))

RetryStart(c, serial, packageId) ==
  /\ CanStart(c, serial)
  /\ CommitStep(c, retryBegin(session, config, settings, packageId, now))

\* variant: the missing configuration is thrown to the caller without being
\* recorded
RetryConfigResolvedThrows(c) ==
  /\ calls[c].op = "retry" /\ calls[c].pc = "awaitConfig"
  /\ IF IsNull(calls[c].cfg) \/ ~Has(calls[c].cfg, "oblio")
     THEN Commit(session, c, Thrown(Resumed(c), NoConfigMessage))
     ELSE Commit(session, c, [Resumed(c) EXCEPT !.pc = "awaitImport"])

RetryConfigResolved(c) ==
  /\ calls[c].op = "retry" /\ calls[c].pc = "awaitConfig"
  /\ IF IsNull(calls[c].cfg) \/ ~Has(calls[c].cfg, "oblio")
     THEN CommitStep(c, retryCatch(session, Resumed(c), NoConfigMessage, now))
     ELSE Commit(session, c, [Resumed(c) EXCEPT !.pc = "awaitImport"])

RetryImportResolved(c) ==
  /\ calls[c].op = "retry" /\ calls[c].pc = "awaitImport"
  /\ LET call == Resumed(c)
         packageToRetry == call.cur
         s1 == addLogEntry(session, LogEntry("retry-attempt-" \o call.packageId
                                             \o "-" \o ToString(call.newRetryCount), "info"))
         packageValidation == validateTrendyolPackage(packageToRetry)
         oblioInvoiceRequest ==
           trendyolPackageToOblioInvoice(packageToRetry, TransformConfig(call.cfg), now)
         invoiceValidation == validateTransformedData(oblioInvoiceRequest)
     IN IF Len(packageValidation) > 0
        THEN CommitStep(c, retryCatch(s1, call,
               "Package validation failed: " \o join(packageValidation, ", "), now))
        ELSE IF Len(invoiceValidation) > 0
        THEN CommitStep(c, retryCatch(s1, call,
               "Invoice validation failed: " \o join(invoiceValidation, ", "), now))
        ELSE Commit(addLogEntry(s1, LogEntry("retry-create-invoice-" \o call.packageId, "info")),
                    c, [call EXCEPT !.pc = "awaitCreate",
                          !.remoteCalls = Append(@, RemoteCall("createInvoice", call.packageId))])

RetryCreateResolved(c, oblioInvoice) ==
  /\ calls[c].op = "retry" /\ calls[c].pc = "awaitCreate"
  /\ LET call == Settled(c, "resolved", oblioInvoice)
     IN IF ~(Has(oblioInvoice, "data") /\ Has(oblioInvoice.data, "link")
             /\ oblioInvoice.data.link # "")
        THEN CommitStep(c, retryCatch(session, call, NoLinkMessage, now))
        ELSE LET s1 == addLogEntry(session,
                         LogEntry("retry-invoice-created-" \o call.packageId, "info"))
                 s2 == addLogEntry(s1, LogEntry("retry-send-link-" \o call.packageId, "info"))
             IN Commit(s2, c, [call EXCEPT !.pc = "awaitLink", !.resp = oblioInvoice,
                                 !.remoteCalls = Append(@, RemoteCall("sendInvoiceLinkToOrder", call.packageId))])

RetryCreateRejected(c, message) ==
  /\ calls[c].op = "retry" /\ calls[c].pc = "awaitCreate"
  /\ CommitStep(c, retryCatch(session, Settled(c, "rejected", Rejection(message)), message, now))

RetryLinkResolved(c) ==
  /\ calls[c].op = "retry" /\ calls[c].pc = "awaitLink"
  /\ LET call == Settled(c, "resolved", Null)
         s1 == retryComplete(session, call.packageId, call.resp, now)
         s2 == addLogEntry(s1, LogEntry("retry-success-" \o call.packageId, "info"))
     IN Commit(s2, c, Returned(Wrote(call, "retry:completed", call.packageId, session, s1),
                               << >>))

\* variant: a rejected sendInvoiceLinkToOrder is swallowed and the retry
\* completes the record
RetryLinkRejectedCompletes(c, message) ==
  /\ calls[c].op = "retry" /\ calls[c].pc = "awaitLink"
  /\ LET call == Settled(c, "rejected", Rejection(message))
         s1 == retryComplete(session, call.packageId, call.resp, now)
         s2 == addLogEntry(s1, LogEntry("retry-success-" \o call.packageId, "info"))
     IN Commit(s2, c, Returned(Wrote(call, "retry:completed", call.packageId, session, s1),
                               << >>))

RetryLinkRejected(c, message) ==
  /\ calls[c].op = "retry" /\ calls[c].pc = "awaitLink"
  /\ CommitStep(c, retryCatch(session, [Settled(c, "rejected", Rejection(message)) EXCEPT !.resp = Null], message, now))

(***************************************************************************)
(* The environment: the clock and the configuration panel.                 *)
(***************************************************************************)
Tick ==
  /\ now < MaxTime
  /\ now' = now + 1
  /\ UNCHANGED << session, config, settings, calls, completedOnce, attempts, dashboard >>

\* BrowserStorageService.saveEncryptedConfig
SaveEncryptedConfig(newConfig) ==
  /\ config' = newConfig
  /\ UNCHANGED << session, settings, now, calls, completedOnce, attempts, dashboard >>

(***************************************************************************)
(* Specification: a caller that serialises its invocations (the dashboard  *)
(* waits for one operation before it starts the next).                     *)
(***************************************************************************)
Init ==
  /\ session = Null
  /\ config = Null
  /\ settings = StoredSettings
  /\ now = 0
  /\ calls = [c \in Calls |-> NewCall]
  /\ completedOnce = {}
  /\ attempts = Null
  /\ dashboard = NewDashboard

Next ==
  \/ \E c \in Calls : FetchStart(c, TRUE)
  \/ \E c \in Calls, packages \in FetchResults : FetchResolved(c, packages)
  \/ \E c \in Calls, message \in FetchErrors : FetchRejected(c, message)
  \/ \E c \in Calls : Filter(c, TRUE, sessionOrDefault(session).currentShipmentPackages, {})
  \/ \E c \in Calls, packageIds \in ProcessRequests : ProcessStart(c, TRUE, packageIds)
  \/ \E c \in Calls : ProcessConfigResolved(c)
  \/ \E c \in Calls : ProcessImportResolved(c)
  \/ \E c \in Calls, oblioInvoice \in OblioResponses : ProcessCreateResolved(c, oblioInvoice)
  \/ \E c \in Calls, message \in CreateErrors : ProcessCreateRejected(c, message)
  \/ \E c \in Calls : ProcessLinkResolved(c)
  \/ \E c \in Calls, message \in LinkErrors : ProcessLinkRejected(c, message)
  \/ \E c \in Calls, packageId \in RetryRequests : RetryStart(c, TRUE, packageId)
  \/ \E c \in Calls : RetryConfigResolved(c)
  \/ \E c \in Calls : RetryImportResolved(c)
  \/ \E c \in Calls, oblioInvoice \in OblioResponses : RetryCreateResolved(c, oblioInvoice)
  \/ \E c \in Calls, message \in CreateErrors : RetryCreateRejected(c, message)
  \/ \E c \in Calls : RetryLinkResolved(c)
  \/ \E c \in Calls, message \in LinkErrors : RetryLinkRejected(c, message)
  \/ Tick
  \/ \E newConfig \in Configs : SaveEncryptedConfig(newConfig)

Spec == Init /\ [][Next]_vars

(***************************************************************************)
(* Specification of the filter alone: the stored records and the package   *)
(* list handed to filterPackagesWithoutInvoices are drawn from bounded     *)
(* sets, whatever the orchestrator would have produced.                    *)
(***************************************************************************)
MaxPackages == 2

Pkg1Awaiting == ShipmentPackage(1, "Awaiting", GoodAddress, << GoodLine >>)

FilterCatalogue == { Pkg1, Pkg1Awaiting, Pkg2, Pkg2Awaiting, Pkg2NoName }

FilterInputs ==
  UNION { [1..n -> FilterCatalogue] : n \in 0..MaxPackages }

\* the records storage may hold for one package: none, or one of each status
StoredRecords(orderId) ==
  { << >>,
    << [trendyolOrderId |-> orderId, status |-> "pending", processedAt |-> 0] >>,
    << [trendyolOrderId |-> orderId, status |-> "failed", processedAt |-> 0,
        errorMessage |-> NoLinkMessage] >>,
    << [trendyolOrderId |-> orderId, status |-> "completed", processedAt |-> 0,
        oblioInvoiceId |-> "FACT001"] >> }

StoredSessions ==
  { [getDefaultSessionData EXCEPT !.processedInvoices = r1 \o r2] :
      r1 \in StoredRecords("1"), r2 \in StoredRecords("2") }

InitFilter ==
  /\ session \in {Null} \cup StoredSessions
  /\ config = GoodConfig
  /\ settings = StoredSettings
  /\ now = 0
  /\ calls = [c \in Calls |-> NewCall]
  /\ completedOnce = {}
  /\ attempts = Null
  /\ dashboard = NewDashboard

NextFilter ==
  \E c \in Calls, packages \in FilterInputs : Filter(c, TRUE, packages, {})

SpecFilter == InitFilter /\ [][NextFilter]_vars

(***************************************************************************)
(* Vocabulary of the properties                                            *)
(***************************************************************************)
\* the status stored for a package, "none" when there is no record
StatusOf(s, orderId) ==
  LET processedInvoice == getProcessedInvoice(s, orderId)
  IN IF IsNull(processedInvoice) THEN "none" ELSE processedInvoice.status

StartsWith(s, prefix) ==
  Len(s) >= Len(prefix) /\ SubSeq(s, 1, Len(prefix)) = prefix

\* the property f of a record as JavaScript reads it: its value, or undefined
Get(r, f) == IF Has(r, f) THEN Val(r[f]) ELSE Undefined

FilterDone(call) == call.op = "filter" /\ call.pc = "done"

\* what the caller of the filter got back
Filtered(call) == call.result.filteredPackages

(***************************************************************************)
(* C1: the filter never returns a package whose record is completed, and   *)
(* never returns a package whose status is 'Awaiting', whatever its record.*)
(***************************************************************************)
C1_FilterExcludes ==
  \A c \in Calls :
    FilterDone(calls[c]) =>
      \A i \in 1..Len(Filtered(calls[c])) :
        LET pkg == Filtered(calls[c])[i]
        IN /\ pkg.status # "Awaiting"
           /\ StatusOf(session, ToString(pkg.id)) # "completed"

\* the filter was handed an 'Awaiting' package with a failed record and a
\* package with a completed record, and still returned something
C1_Witness ==
  \E c \in Calls :
    /\ FilterDone(calls[c])
    /\ \E i \in 1..Len(calls[c].packages) :
         /\ calls[c].packages[i].status = "Awaiting"
         /\ StatusOf(session, ToString(calls[c].packages[i].id)) = "failed"
    /\ \E i \in 1..Len(calls[c].packages) :
         /\ calls[c].packages[i].status # "Awaiting"
         /\ StatusOf(session, ToString(calls[c].packages[i].id)) = "completed"
    /\ Len(calls[c].packages) = 2

(***************************************************************************)
(* C2: the filter returns exactly the packages that are not 'Awaiting' and *)
(* have no record or a failed or pending record, in the order of the input.*)
(***************************************************************************)
Eligible(s, pkg) ==
  /\ pkg.status # "Awaiting"
  /\ StatusOf(s, ToString(pkg.id)) \in { "none", "failed", "pending" }

\* the positions of the input that hold an eligible package
EligiblePositions(s, packages) ==
  { i \in 1..Len(packages) : Eligible(s, packages[i]) }

\* the k-th smallest element of a set of positions
Nth(positions, k) ==
  CHOOSE i \in positions : Cardinality({ j \in positions : j < i }) = k - 1

C2_FilterExact ==
  \A c \in Calls :
    FilterDone(calls[c]) =>
      LET positions == EligiblePositions(session, calls[c].packages)
      IN /\ Len(Filtered(calls[c])) = Cardinality(positions)
         /\ \A k \in 1..Cardinality(positions) :
              Filtered(calls[c])[k] = calls[c].packages[Nth(positions, k)]

\* two eligible packages came back in input order: one with a pending
\* record, one with a failed record
C2_Witness ==
  \E c \in Calls :
    /\ FilterDone(calls[c])
    /\ Len(Filtered(calls[c])) = 2
    /\ Filtered(calls[c])[1].id = 2 /\ Filtered(calls[c])[2].id = 1
    /\ StatusOf(session, "2") = "pending"
    /\ StatusOf(session, "1") = "failed"

(***************************************************************************)
(* Vocabulary of the properties about processSelectedPackages and          *)
(* retryFailedInvoice                                                      *)
(***************************************************************************)
\* an invocation of retryFailedInvoice that was accepted
AcceptedRetry(call) == call.op = "retry" /\ call.newRetryCount > 0

\* an invocation of retryFailedInvoice that was rejected by one of the checks
\* on the record (no record, status, attempts, backoff, error class)
RejectedAtGate(call) ==
  /\ call.op = "retry" /\ call.pc = "done" /\ call.outcome = "thrown"
  /\ \/ StartsWith(call.error, "No processed invoice record found")
     \/ StartsWith(call.error, "Cannot retry invoice")
     \/ StartsWith(call.error, "Maximum retry attempts")
     \/ StartsWith(call.error, "Must wait")
     \/ StartsWith(call.error, "Error for package")

StatusChanges ==
  { << "none", "pending" >>, << "pending", "completed" >>,
    << "pending", "failed" >>, << "failed", "pending" >> }

(***************************************************************************)
(* C3: every change of a record's status is none -> pending, pending ->    *)
(* completed, pending -> failed or failed -> pending; failed -> pending    *)
(* happens only when a retry is accepted; a completed record never changes *)
(* status again.                                                           *)
(***************************************************************************)
C3_StatusLifecycle ==
  \A c \in Calls :
    \A i \in 1..Len(calls[c].writes) :
      LET write == calls[c].writes[i]
      IN write.before # write.after =>
           /\ << write.before, write.after >> \in StatusChanges
           /\ write.before = "failed" => write.site = "retry:accepted"
           /\ write.before # "completed"

(***************************************************************************)
(* C4: once a package's record has been completed, no invocation of        *)
(* processSelectedPackages or retryFailedInvoice calls createInvoice for   *)
(* that package again.                                                     *)
(***************************************************************************)
C4_NoSecondInvoice ==
  \A c \in Calls :
    calls[c].pc = "awaitCreate" => ToString(calls[c].cur.id) \notin completedOnce

(***************************************************************************)
(* C5: after processSelectedPackages or retryFailedInvoice has returned or *)
(* thrown, every record it touched is completed or failed; a pending       *)
(* record is seen only while the pipeline of some invocation is running    *)
(* for that package.                                                       *)
(***************************************************************************)
C5_NoPendingLeftBehind ==
  /\ \A c \in Calls :
       (calls[c].op \in { "process", "retry" } /\ calls[c].pc = "done") =>
         \A orderId \in calls[c].touched :
           StatusOf(session, orderId) \in { "completed", "failed" }
  /\ \A orderId \in RecordIds :
       StatusOf(session, orderId) = "pending" =>
         \E c \in Calls :
           /\ Suspended(calls[c])
           /\ ~IsNull(calls[c].cur) /\ ToString(calls[c].cur.id) = orderId

\* a batch of two has returned, one package invoiced and one failed
C5_Witness ==
  \E c \in Calls :
    /\ calls[c].op = "process" /\ calls[c].pc = "done"
    /\ calls[c].outcome = "returned"
    /\ calls[c].touched = { "1", "2" }
    /\ calls[c].result.successCount = 1 /\ calls[c].result.failureCount = 1

(***************************************************************************)
(* C6: a retry rejected by a check on the record (no record, status other  *)
(* than failed, attempts used up, backoff not elapsed, error not           *)
(* retryable) has made no remote call and leaves the record as it was.     *)
(***************************************************************************)
C6_RejectedRetryNoEffect ==
  \A c \in Calls :
    RejectedAtGate(calls[c]) =>
      /\ calls[c].remoteCalls = << >>
      /\ getProcessedInvoice(session, calls[c].packageId) = calls[c].processedInvoice

\* a retry of a failed record that was retried before is rejected because
\* its backoff has not elapsed
C6_Witness ==
  \E c \in Calls :
    /\ RejectedAtGate(calls[c])
    /\ StartsWith(calls[c].error, "Must wait")
    /\ Get(calls[c].processedInvoice, "status") = Val("failed")
    /\ Get(calls[c].processedInvoice, "retryCount") = Val(1)

(***************************************************************************)
(* C7: when a retry is accepted the record is updated before any remote    *)
(* call: status pending, retryCount one more than before (an absent count  *)
(* is 0), lastRetryAt the time of acceptance, nextRetryAt that time plus   *)
(* the backoff of the new count.                                           *)
(***************************************************************************)
C7_AcceptanceUpdate ==
  [][\A c \in Calls :
       (/\ ~Suspended(calls[c])
        /\ calls'[c].op = "retry" /\ calls'[c].pc = "awaitConfig") =>
         LET before == getProcessedInvoice(session, calls'[c].packageId)
             after == getProcessedInvoice(session', calls'[c].packageId)
             count == (IF Has(before, "retryCount") THEN before.retryCount ELSE 0) + 1
         IN /\ Get(after, "status") = Val("pending")
            /\ Get(after, "retryCount") = Val(count)
            /\ Get(after, "lastRetryAt") = Val(now)
            /\ Get(after, "nextRetryAt") = Val(now + calculateBackoffDelay(count))
            /\ calls'[c].remoteCalls = << >>]_vars

\* a second retry of the same package has just been accepted, some time
\* after the first
C7_Witness ==
  \E c \in Calls :
    /\ calls[c].op = "retry" /\ calls[c].pc = "awaitConfig"
    /\ calls[c].remoteCalls = << >>
    /\ now > 0
    /\ Get(getProcessedInvoice(session, calls[c].packageId), "retryCount") = Val(2)
    /\ Get(getProcessedInvoice(session, calls[c].packageId), "lastRetryAt") = Val(now)

(***************************************************************************)
(* C8: from the acceptance of a retry until its pipeline has finished, the *)
(* record carries no errorMessage.                                         *)
(***************************************************************************)
C8_ErrorMessageCleared ==
  \A c \in Calls :
    (calls[c].op = "retry" /\ Suspended(calls[c])) =>
      Get(getProcessedInvoice(session, calls[c].packageId), "errorMessage") = Undefined

(***************************************************************************)
(* C9: after an accepted retry has succeeded the record is completed,      *)
(* carries the composed invoice id (series name followed by number) and    *)
(* has no nextRetryAt.                                                     *)
(***************************************************************************)
C9_SuccessfulRetry ==
  \A c \in Calls :
    (calls[c].op = "retry" /\ calls[c].pc = "done" /\ calls[c].outcome = "returned") =>
      LET processedInvoice == getProcessedInvoice(session, calls[c].packageId)
      IN /\ Get(processedInvoice, "status") = Val("completed")
         /\ Get(processedInvoice, "oblioInvoiceId") = Val("FACT" \o "001")
         /\ Get(processedInvoice, "nextRetryAt") = Undefined

(***************************************************************************)
(* C10: after an accepted retry has failed the record is failed, its       *)
(* errorMessage is the message of the new failure, and retryCount,         *)
(* lastRetryAt and nextRetryAt are still the values written at acceptance. *)
(***************************************************************************)
C10_FailedRetry ==
  [][\A c \in Calls :
       (AcceptedRetry(calls[c]) /\ Suspended(calls[c])) =>
         LET before == getProcessedInvoice(session, calls[c].packageId)
             after == getProcessedInvoice(session', calls[c].packageId)
         IN /\ Get(after, "retryCount") = Get(before, "retryCount")
            /\ Get(after, "lastRetryAt") = Get(before, "lastRetryAt")
            /\ Get(after, "nextRetryAt") = Get(before, "nextRetryAt")
            /\ Get(after, "retryCount") = Val(calls[c].newRetryCount)
            /\ Get(after, "nextRetryAt") = Val(calls[c].nextRetryAt)
            /\ (calls'[c].pc = "done" /\ calls'[c].outcome = "thrown") =>
                 /\ Get(after, "status") = Val("failed")
                 /\ Get(after, "errorMessage") = Val(calls'[c].error)]_vars

\* an accepted retry has failed with another message than the failure it
\* retried, and the record carries the new one
C10_Witness ==
  \E c \in Calls :
    /\ AcceptedRetry(calls[c])
    /\ calls[c].pc = "done" /\ calls[c].outcome = "thrown"
    /\ Get(calls[c].processedInvoice, "errorMessage") # Val(calls[c].error)
    /\ Get(getProcessedInvoice(session, calls[c].packageId), "status") = Val("failed")
    /\ Get(getProcessedInvoice(session, calls[c].packageId), "errorMessage")
         = Val(calls[c].error)
    /\ Get(getProcessedInvoice(session, calls[c].packageId), "retryCount")
         = Val(calls[c].newRetryCount)

(***************************************************************************)
(* Vocabulary of the properties about the backoff window                   *)
(***************************************************************************)
\* the step starts an invocation of retryFailedInvoice in slot c
RetryCalled(c) ==
  /\ ~Suspended(calls[c])
  /\ calls'[c] # calls[c]
  /\ calls'[c].op = "retry"

\* the record is failed after a retry and its backoff window is still open
InBackoffWindow(processedInvoice, time) ==
  /\ Get(processedInvoice, "status") = Val("failed")
  /\ Has(processedInvoice, "retryCount") /\ processedInvoice.retryCount >= 1
  /\ Has(processedInvoice, "lastRetryAt")
  /\ time < processedInvoice.lastRetryAt
            + calculateBackoffDelay(processedInvoice.retryCount)

\* the status changes written by the step that start a new attempt on a
\* failed record
Reattempts(c) ==
  IF calls'[c] = calls[c] THEN {}
  ELSE { calls'[c].writes[i].orderId : i \in
           { j \in 1..Len(calls'[c].writes) :
               /\ calls'[c].writes[j].before = "failed"
               /\ calls'[c].writes[j].after = "pending" } }

MaxAttempt == 10

Backoff(c, attempt) ==
  /\ CanStart(c, FALSE)
  /\ Commit(session, c,
            Returned(Merge(NewCall, [op |-> "backoff", newRetryCount |-> attempt]),
                     [result |-> [delay |-> calculateBackoffDelay(attempt)]]))

NextBackoff ==
  \E c \in Calls, attempt \in 1..MaxAttempt : Backoff(c, attempt)

SpecBackoff == Init /\ [][NextBackoff]_vars

BackoffDone(call) == call.op = "backoff" /\ call.pc = "done"

\* the delays the specification lists
ListedDelays == { << 1, 2 >>, << 2, 4 >>, << 3, 8 >>, << 4, 16 >>, << 10, 300 >> }

MaxCountedAttempts == 4

TotalAttempts(orderId) == attempts[orderId].process + attempts[orderId].retry

\* the settings the runs start from: none stored (the default maximum
\* applies), or a stored maximum of 1 or 2
AttemptSettings == { Null, [autoRetryCount |-> 1], StoredSettings }

InitAttempts ==
  /\ session = Null
  /\ config = GoodConfig
  /\ settings \in AttemptSettings
  /\ now = 0
  /\ calls = [c \in Calls |-> NewCall]
  /\ completedOnce = {}
  /\ attempts = [orderId \in RecordIds |-> [process |-> 0, retry |-> 0]]
  /\ dashboard = NewDashboard

NextAttempts ==
  \/ \E c \in Calls : FetchStart(c, TRUE)
  \/ \E c \in Calls : FetchResolved(c, << Pkg1 >>)
  \/ \E c \in Calls :
       TotalAttempts("1") < MaxCountedAttempts /\ ProcessStart(c, TRUE, << "1" >>)
  \/ \E c \in Calls : ProcessConfigResolved(c)
  \/ \E c \in Calls : ProcessImportResolved(c)
  \/ \E c \in Calls : ProcessCreateResolved(c, TopLinkResponse(InvoiceLink))
  \/ \E c \in Calls, message \in CreateErrors : ProcessCreateRejected(c, message)
  \/ \E c \in Calls : ProcessLinkResolved(c)
  \/ \E c \in Calls, message \in LinkErrors : ProcessLinkRejected(c, message)
  \/ \E c \in Calls :
       TotalAttempts("1") < MaxCountedAttempts /\ RetryStart(c, TRUE, "1")
  \/ \E c \in Calls : RetryConfigResolved(c)
  \/ \E c \in Calls : RetryImportResolved(c)
  \/ \E c \in Calls : RetryCreateResolved(c, TypedResponse(InvoiceLink))
  \/ \E c \in Calls, message \in CreateErrors : RetryCreateRejected(c, message)
  \/ \E c \in Calls : RetryLinkResolved(c)
  \/ \E c \in Calls, message \in LinkErrors : RetryLinkRejected(c, message)
  \/ Tick

SpecAttempts == InitAttempts /\ [][NextAttempts]_vars

\* the configured maximum of retries (the settings do not change)
MaxRetries == getAutoRetryCount(settings)

StoredRetryCount(orderId) ==
  LET processedInvoice == getProcessedInvoice(session, orderId)
  IN IF Has(processedInvoice, "retryCount") THEN processedInvoice.retryCount ELSE 0

ProcessReturned(call) ==
  call.op = "process" /\ call.pc = "done" /\ call.outcome = "returned"

\* the positions in the call's history of its calls to an api for a package
\* that settled with the outcome
SettledCalls(call, api, packageId, outcome) ==
  { i \in 1..Len(call.remoteCalls) :
      /\ call.remoteCalls[i].api = api
      /\ call.remoteCalls[i].packageId = packageId
      /\ call.remoteCalls[i].outcome = outcome }

\* the document link of a createInvoice result in the shape the Oblio client
\* returns it: under 'data'
DocumentLink(oblioInvoice) ==
  IF Has(oblioInvoice, "data") /\ Has(oblioInvoice.data, "link")
  THEN oblioInvoice.data.link ELSE ""

\* createInvoice resolved for the package with the typed response (status,
\* statusMessage, data with series name, number and a non-empty link)
CreatedWithLink(call, packageId) ==
  \E i \in SettledCalls(call, "createInvoice", packageId, "resolved") :
    call.remoteCalls[i].value = TypedResponse(InvoiceLink)

(***************************************************************************)
(* C14 (Scenario B): processSelectedPackages is called for one valid       *)
(* package, createInvoice resolves with series name, number and a          *)
(* non-empty link in the response shape the Oblio client returns, and the  *)
(* link-attach call does not fail: the call returns successCount 1 and     *)
(* failureCount 0 and the record of the package is completed with the      *)
(* invoice id seriesName followed by number.                               *)
(***************************************************************************)
C14_SuccessfulProcess ==
  \A c \in Calls : \A packageId \in RecordIds :
    ( /\ ProcessReturned(calls[c])
      /\ calls[c].result.totalOrders = 1
      /\ CreatedWithLink(calls[c], packageId)
      /\ SettledCalls(calls[c], "sendInvoiceLinkToOrder", packageId, "rejected") = {} )
    => /\ calls[c].result.successCount = 1
       /\ calls[c].result.failureCount = 0
       /\ StatusOf(session, packageId) = "completed"
       /\ Get(getProcessedInvoice(session, packageId), "oblioInvoiceId") = Val("FACT001")

\* a createInvoice result without a non-empty link, under 'data' or at the
\* top level
NoLink(oblioInvoice) ==
  /\ DocumentLink(oblioInvoice) = ""
  /\ ~(Has(oblioInvoice, "link") /\ oblioInvoice.link # "")

\* createInvoice resolved for the package with a result that has no link
CreatedWithoutLink(call, packageId) ==
  \E i \in SettledCalls(call, "createInvoice", packageId, "resolved") :
    NoLink(call.remoteCalls[i].value)

\* the positions of the failures a call of processSelectedPackages collected
\* for a package
ErrorsOf(call, packageId) ==
  { i \in 1..Len(call.errors) : call.errors[i].orderId = packageId }

(***************************************************************************)
(* C15: when createInvoice resolves for a package of processSelectedPackages *)
(* with a result that carries no non-empty link, the package fails with    *)
(* exactly 'Oblio invoice created but no link returned': the record is     *)
(* failed with that message, the failure is counted in failureCount and    *)
(* reported in errors, and sendInvoiceLinkToOrder is not called for the    *)
(* package.                                                                *)
(***************************************************************************)
C15_NoLinkFails ==
  \A c \in Calls : \A packageId \in RecordIds :
    (calls[c].op = "process" /\ CreatedWithoutLink(calls[c], packageId)) =>
      /\ Cardinality(ErrorsOf(calls[c], packageId)) = 1
      /\ \A i \in ErrorsOf(calls[c], packageId) :
           calls[c].errors[i].message = "Oblio invoice created but no link returned"
      /\ calls[c].failureCount = Len(calls[c].errors)
      /\ ProcessReturned(calls[c]) =>
           /\ calls[c].result.failureCount = calls[c].failureCount
           /\ calls[c].result.errors = calls[c].errors
      /\ StatusOf(session, packageId) = "failed"
      /\ Get(getProcessedInvoice(session, packageId), "errorMessage")
           = Val("Oblio invoice created but no link returned")
      /\ \A i \in 1..Len(calls[c].remoteCalls) :
           calls[c].remoteCalls[i].packageId = packageId
             => calls[c].remoteCalls[i].api # "sendInvoiceLinkToOrder"

\* processSelectedPackages returned after createInvoice resolved with an
\* empty link for its only package
C15_Witness ==
  \E c \in Calls :
    /\ ProcessReturned(calls[c])
    /\ calls[c].remoteCalls # << >>
    /\ calls[c].remoteCalls[1].outcome = "resolved"
    /\ calls[c].remoteCalls[1].value = TypedResponse("")
    /\ calls[c].result.failureCount = 1
    /\ calls[c].result.totalOrders = 1

\* an invocation that runs the invoice pipeline
Pipeline(call) == call.op \in { "process", "retry" }

\* both validations of the pipeline pass for the package
ValidationsPassed(pkg, cfg, time) ==
  /\ Len(validateTrendyolPackage(pkg)) = 0
  /\ Len(validateTransformedData(
           trendyolPackageToOblioInvoice(pkg, TransformConfig(cfg), time))) = 0

(***************************************************************************)
(* C16: in every attempt, of processSelectedPackages or of                 *)
(* retryFailedInvoice, createInvoice is called only after the package      *)
(* validation and the invoice validation both passed,                      *)
(* sendInvoiceLinkToOrder is called only after the createInvoice of that   *)
(* attempt resolved with a non-empty link, and the record is written       *)
(* completed only after the sendInvoiceLinkToOrder of that attempt         *)
(* resolved.                                                               *)
(***************************************************************************)
C16_PipelineOrder ==
  \A c \in Calls :
    Pipeline(calls[c]) =>
      LET call == calls[c]
          last == Len(call.remoteCalls)
      IN /\ call.pc \in { "awaitCreate", "awaitLink" } =>
              /\ ValidationsPassed(call.cur, call.cfg, now)
              /\ call.remoteCalls[last].packageId = ToString(call.cur.id)
              /\ call.remoteCalls[last].outcome = "pending"
         /\ \A i \in 1..last :
              call.remoteCalls[i].api = "sendInvoiceLinkToOrder" =>
                /\ i > 1
                /\ call.remoteCalls[i - 1].api = "createInvoice"
                /\ call.remoteCalls[i - 1].packageId = call.remoteCalls[i].packageId
                /\ call.remoteCalls[i - 1].outcome = "resolved"
                /\ ~NoLink(call.remoteCalls[i - 1].value)
         /\ \A i \in 1..Len(call.writes) :
              call.writes[i].after = "completed" =>
                SettledCalls(call, "sendInvoiceLinkToOrder",
                             call.writes[i].orderId, "resolved") # {}
         /\ (call.op = "retry" /\ call.outcome = "returned") =>
              /\ StatusOf(session, call.packageId) = "completed"
              /\ SettledCalls(call, "sendInvoiceLinkToOrder", call.packageId, "resolved") # {}

\* a retry went through the three stages and has just written the record
\* completed
C16_Witness ==
  \E c \in Calls :
    /\ calls[c].op = "retry" /\ calls[c].outcome = "returned"
    /\ Len(calls[c].remoteCalls) = 2
    /\ calls[c].remoteCalls[1].api = "createInvoice"
    /\ calls[c].remoteCalls[1].outcome = "resolved"
    /\ calls[c].remoteCalls[2].api = "sendInvoiceLinkToOrder"
    /\ calls[c].remoteCalls[2].outcome = "resolved"
    /\ \E i \in 1..Len(calls[c].writes) : calls[c].writes[i].after = "completed"

\* in this invocation createInvoice resolved with a link for the package and
\* sendInvoiceLinkToOrder then rejected: an invoice exists at Oblio that
\* Trendyol does not know
PartialSuccess(call, packageId) ==
  /\ \E i \in SettledCalls(call, "createInvoice", packageId, "resolved") :
       ~NoLink(call.remoteCalls[i].value)
  /\ SettledCalls(call, "sendInvoiceLinkToOrder", packageId, "rejected") # {}

\* the record the retry found was failed by a rejected sendInvoiceLinkToOrder
RetriesPartialSuccess(call) ==
  /\ AcceptedRetry(call)
  /\ \E message \in LinkErrors :
       Get(call.processedInvoice, "errorMessage") = Val(message)

(***************************************************************************)
(* C17 (partial-success gap): when createInvoice succeeds and              *)
(* sendInvoiceLinkToOrder then rejects, the record of the package ends     *)
(* failed, with the error of the rejection and without an invoice id,      *)
(* although an invoice exists remotely; an accepted retry of such a record *)
(* that passes the configuration check and the validations calls           *)
(* createInvoice again: nothing in the retry looks for the existing        *)
(* invoice.                                                                *)
(***************************************************************************)
C17_PartialSuccessGap ==
  \A c \in Calls :
    /\ \A packageId \in RecordIds :
         (Pipeline(calls[c]) /\ PartialSuccess(calls[c], packageId)) =>
           /\ StatusOf(session, packageId) = "failed"
           /\ \E message \in LinkErrors :
                Get(getProcessedInvoice(session, packageId), "errorMessage") = Val(message)
           /\ Get(getProcessedInvoice(session, packageId), "oblioInvoiceId") = Undefined
    /\ (RetriesPartialSuccess(calls[c]) /\ calls[c].pc \notin { "awaitConfig", "awaitImport" }) =>
         \/ /\ calls[c].remoteCalls # << >>
            /\ calls[c].remoteCalls[1].api = "createInvoice"
            /\ calls[c].remoteCalls[1].packageId = calls[c].packageId
         \/ /\ calls[c].outcome = "thrown"
            /\ \/ calls[c].error = NoConfigMessage
               \/ StartsWith(calls[c].error, "Package validation failed")
               \/ StartsWith(calls[c].error, "Invoice validation failed")

\* the record was failed by a rejected sendInvoiceLinkToOrder, a retry was
\* accepted and its createInvoice resolved: the second invoice of the package
C17_Witness ==
  \E c \in Calls :
    /\ RetriesPartialSuccess(calls[c])
    /\ SettledCalls(calls[c], "createInvoice", calls[c].packageId, "resolved") # {}
    /\ calls[c].pc = "awaitLink"

\* the position of an element in a sequence that holds it
IndexOf(seq, x) == CHOOSE i \in 1..Len(seq) : seq[i] = x

\* the invocation of processSelectedPackages works through its packages in
\* the order of the id list 'order': the status changes of one step are in
\* that order, and every package it has started comes before every package
\* still waiting
ProcessesInOrder(call, order) ==
  /\ \A m, n \in 1..Len(call.writes) :
       m < n => IndexOf(order, call.writes[m].orderId)
                  <= IndexOf(order, call.writes[n].orderId)
  /\ \A orderId \in call.touched : \A k \in 1..Len(call.queue) :
       IndexOf(order, orderId) < IndexOf(order, ToString(call.queue[k].id))
  /\ \A m, n \in 1..Len(call.errors) :
       m < n => IndexOf(order, call.errors[m].orderId)
                  < IndexOf(order, call.errors[n].orderId)

(***************************************************************************)
(* C18 as stated: processSelectedPackages(packageIds) processes the        *)
(* packages in the order their ids have in packageIds: the record updates  *)
(* of the i-th requested id precede those of the (i+1)-th, whatever the    *)
(* order of the packages in the session working set.                       *)
(***************************************************************************)
C18_RequestOrder ==
  \A c \in Calls :
    calls[c].op = "process" => ProcessesInOrder(calls[c], calls[c].packageIds)

\* the ids of the packages of the session working set
SessionIds ==
  LET packages == sessionOrDefault(session).currentShipmentPackages
  IN { ToString(packages[i].id) : i \in 1..Len(packages) }

\* the requested ids of an invocation that are not in the working set
AbsentIds(call) ==
  { call.packageIds[k] : k \in 1..Len(call.packageIds) } \ SessionIds

(***************************************************************************)
(* C19: when processSelectedPackages is called with ids of which some, but *)
(* not all, are absent from the working set, the present packages are      *)
(* processed and every absent id has its own failure in the result: one    *)
(* entry of errors naming the id, counted in failureCount and in           *)
(* totalOrders; no absent id is skipped silently.                          *)
(***************************************************************************)
C19_AbsentIdsFail ==
  \A c \in Calls :
    ProcessReturned(calls[c]) =>
      /\ \A orderId \in AbsentIds(calls[c]) :
           Cardinality({ i \in 1..Len(calls[c].result.errors) :
                           calls[c].result.errors[i].orderId = orderId }) = 1
      /\ calls[c].result.failureCount >= Cardinality(AbsentIds(calls[c]))
      /\ calls[c].result.totalOrders = Len(calls[c].packageIds)

\* the packages an invocation of processSelectedPackages started whose record
\* has the status; the invocation replaced the record of each of them by a
\* pending one, so the status is the one this invocation wrote
TouchedWith(call, status) ==
  { orderId \in call.touched : StatusOf(session, orderId) = status }

(***************************************************************************)
(* C20: for every call of processSelectedPackages that returns,            *)
(* totalOrders = successCount + failureCount, errors has exactly           *)
(* failureCount entries, exactly one for each failed package and carrying  *)
(* its id, and successCount is the number of packages whose record this    *)
(* call set to completed.                                                  *)
(***************************************************************************)
C20_ResultTally ==
  \A c \in Calls :
    ProcessReturned(calls[c]) =>
      LET result == calls[c].result
          failed == TouchedWith(calls[c], "failed")
      IN /\ result.totalOrders = result.successCount + result.failureCount
         /\ Len(result.errors) = result.failureCount
         /\ result.failureCount = Cardinality(failed)
         /\ \A orderId \in failed :
              Cardinality({ i \in 1..Len(result.errors) :
                              result.errors[i].orderId = orderId }) = 1
         /\ \A i \in 1..Len(result.errors) : result.errors[i].orderId \in failed
         /\ result.successCount = Cardinality(TouchedWith(calls[c], "completed"))
         /\ result.successCount =
              Cardinality({ orderId \in calls[c].touched :
                 SettledCalls(calls[c], "sendInvoiceLinkToOrder", orderId, "resolved") # {} })

\* a call for two packages returned with one package completed and the other
\* failed
C20_Witness ==
  \E c \in Calls :
    /\ ProcessReturned(calls[c])
    /\ calls[c].result.totalOrders = 2
    /\ calls[c].result.successCount = 1
    /\ calls[c].result.failureCount = 1

(***************************************************************************)
(* Specification of the batches: the working set holds two packages, both  *)
(* valid or one of them failing its validation, in either order; the       *)
(* configuration is absent, incomplete or complete and does not change;    *)
(* processSelectedPackages is called for one package, for both, or for a   *)
(* package that was never fetched, and every remote call resolves or       *)
(* rejects.                                                                *)
(***************************************************************************)
BatchWorkingSets ==
  { << Pkg1, Pkg2 >>, << Pkg1, Pkg2BlankName >>, << Pkg2BlankName, Pkg1 >> }

BatchRequests == { << "1" >>, << "1", "2" >>, << "3" >> }

InitBatch ==
  /\ session = Null
  /\ config \in { Null } \cup Configs
  /\ settings = StoredSettings
  /\ now = 0
  /\ calls = [c \in Calls |-> NewCall]
  /\ completedOnce = {}
  /\ attempts = Null
  /\ dashboard = NewDashboard

NextBatch ==
  \/ \E c \in Calls : FetchStart(c, TRUE)
  \/ \E c \in Calls, packages \in BatchWorkingSets : FetchResolved(c, packages)
  \/ \E c \in Calls, packageIds \in BatchRequests : ProcessStart(c, TRUE, packageIds)
  \/ \E c \in Calls : ProcessConfigResolved(c)
  \/ \E c \in Calls : ProcessImportResolved(c)
  \/ \E c \in Calls, oblioInvoice \in OblioResponses : ProcessCreateResolved(c, oblioInvoice)
  \/ \E c \in Calls, message \in CreateErrors : ProcessCreateRejected(c, message)
  \/ \E c \in Calls : ProcessLinkResolved(c)
  \/ \E c \in Calls, message \in LinkErrors : ProcessLinkRejected(c, message)

SpecBatch == InitBatch /\ [][NextBatch]_vars

\* the errors processSelectedPackages throws for its preconditions
PreconditionErrors == { NoSessionMessage, NoMatchMessage, NoConfigMessage }

(***************************************************************************)
(* C21: once its preconditions hold (working set present, an id resolves,  *)
(* configuration present) processSelectedPackages never throws, whatever   *)
(* fails for a package (validation, createInvoice rejecting, missing link, *)
(* sendInvoiceLinkToOrder rejecting): it throws only a precondition error, *)
(* before any package was started.  The failure of a package does not stop *)
(* the batch: every selected package is started, and at the return every   *)
(* one of them is completed or failed.                                     *)
(***************************************************************************)
C21_NeverThrowsInLoop ==
  \A c \in Calls :
    calls[c].op = "process" =>
      LET call == calls[c]
      IN /\ call.outcome = "thrown" =>
              /\ call.error \in PreconditionErrors
              /\ call.touched = {}
              /\ call.remoteCalls = << >>
         /\ call.pc \in { "awaitCreate", "awaitLink" } =>
              Cardinality(call.touched) + Len(call.queue) = call.totalOrders
         /\ (call.pc = "done" /\ call.outcome = "returned") =>
              /\ Cardinality(call.touched) = call.totalOrders
              /\ \A orderId \in call.touched :
                   StatusOf(session, orderId) \in { "completed", "failed" }

\* createInvoice rejected for the first package of the call, the second
\* package was processed all the same and failed at sendInvoiceLinkToOrder
C21_Witness ==
  \E c \in Calls :
    /\ ProcessReturned(calls[c])
    /\ calls[c].result.failureCount = 2
    /\ calls[c].result.errors[1].orderId = "1"
    /\ calls[c].result.errors[1].message \in CreateErrors
    /\ SettledCalls(calls[c], "sendInvoiceLinkToOrder", "2", "rejected") # {}

\* the processing records of the session
Records(s) == sessionOrDefault(s).processedInvoices

\* slot c takes a step of an invocation of processSelectedPackages that is
\* still checking its preconditions, or throws
PreconditionStep(c) ==
  /\ calls'[c] # calls[c]
  /\ calls'[c].op = "process"
  /\ calls'[c].pc = "awaitConfig" \/ calls'[c].outcome = "thrown"

(***************************************************************************)
(* C22: when processSelectedPackages throws a precondition error (no       *)
(* working set, no requested id in the working set, no Oblio               *)
(* configuration), the batch is aborted: no step of the call up to the     *)
(* throw creates or modifies a processing record, and no remote client was *)
(* called.                                                                 *)
(***************************************************************************)
C22_PreconditionAborts ==
  [][\A c \in Calls :
       PreconditionStep(c) =>
         /\ Records(session') = Records(session)
         /\ calls'[c].remoteCalls = << >>
         /\ calls'[c].touched = {}
         /\ calls'[c].outcome = "thrown" => calls'[c].error \in PreconditionErrors]_vars

\* the call was aborted for the missing configuration while a record of an
\* earlier call exists
C22_Witness ==
  \E c \in Calls :
    /\ calls[c].op = "process" /\ calls[c].outcome = "thrown"
    /\ calls[c].error = NoConfigMessage
    /\ Len(Records(session)) > 0

\* the ids whose record the call's storage writes of its last step changed
WrittenIds(call) == { call.writes[i].orderId : i \in 1..Len(call.writes) }

(***************************************************************************)
(* C23: within one call of processSelectedPackages the packages are        *)
(* handled strictly one after another: the final record (completed or      *)
(* failed) of a package is written before the record of the next package   *)
(* is touched and before any remote call is made for it, and at no time    *)
(* are two packages of the call both pending.                              *)
(***************************************************************************)
C23_OneAtATime ==
  \A c \in Calls :
    calls[c].op = "process" =>
      LET call == calls[c]
          pending == { orderId \in call.touched : StatusOf(session, orderId) = "pending" }
      IN /\ Cardinality(pending) <= 1
         /\ \A orderId \in pending :
              Suspended(call) /\ orderId = ToString(call.cur.id)
         /\ \A k \in 1..Len(call.queue) : ToString(call.queue[k].id) \notin call.touched
         \* a package is marked pending only after the one before it got
         \* its final status
         /\ \A m \in 1..Len(call.writes) :
              call.writes[m].after = "pending" =>
                IF m = 1 THEN call.touched \subseteq WrittenIds(call)
                ELSE /\ call.writes[m - 1].orderId # call.writes[m].orderId
                     /\ call.writes[m - 1].after \in { "completed", "failed" }
         \* the remote calls of a package are made while it is the one in work
         /\ \A i, j \in 1..Len(call.remoteCalls) :
              (i < j /\ call.remoteCalls[i].packageId # call.remoteCalls[j].packageId) =>
                /\ call.remoteCalls[i].outcome # "pending"
                /\ \A k \in j..Len(call.remoteCalls) :
                     call.remoteCalls[k].packageId # call.remoteCalls[i].packageId
         /\ \A i \in 1..Len(call.remoteCalls) :
              call.remoteCalls[i].outcome = "pending" =>
                /\ i = Len(call.remoteCalls)
                /\ call.remoteCalls[i].packageId = ToString(call.cur.id)

\* the first package of the call went through both remote calls and is
\* completed; the second one is pending, waiting for createInvoice
C23_Witness ==
  \E c \in Calls :
    /\ calls[c].op = "process" /\ calls[c].pc = "awaitCreate"
    /\ calls[c].touched = { "1", "2" }
    /\ StatusOf(session, "1") = "completed"
    /\ StatusOf(session, "2") = "pending"
    /\ Len(calls[c].remoteCalls) = 3
    /\ calls[c].remoteCalls[3].packageId = "2"

\* the working set of the session and the time of the fetch that stored it
WorkingSet(s) == sessionOrDefault(s).currentShipmentPackages
LastFetchTime(s) == sessionOrDefault(s).lastFetchTime

\* slot c takes a step of an invocation of fetchAllShipmentPackages
FetchStep(c) == calls'[c] # calls[c] /\ calls'[c].op = "fetch"

(***************************************************************************)
(* C24: when getAllShipmentPackages rejects, fetchAllShipmentPackages      *)
(* throws 'Failed to fetch shipment packages: ' followed by the cause and  *)
(* the working set of the session is what it was before the call; when it  *)
(* resolves, the working set is replaced by the returned list and that     *)
(* list is returned.                                                       *)
(***************************************************************************)
C24_FetchOutcome ==
  [][\A c \in Calls :
       FetchStep(c) =>
         /\ calls'[c].pc = "awaitFetch" =>
              /\ WorkingSet(session') = WorkingSet(session)
              /\ LastFetchTime(session') = LastFetchTime(session)
         /\ calls'[c].outcome = "thrown" =>
              /\ \E cause \in FetchErrors :
                   calls'[c].error = "Failed to fetch shipment packages: " \o cause
              /\ WorkingSet(session') = WorkingSet(session)
              /\ LastFetchTime(session') = LastFetchTime(session)
         /\ calls'[c].outcome = "returned" =>
              /\ calls'[c].packages \in FetchResults
              /\ WorkingSet(session') = calls'[c].packages
              /\ LastFetchTime(session') = now]_vars

\* a fetch failed while the session held a working set of an earlier fetch
C24_Witness ==
  \E c \in Calls :
    /\ calls[c].op = "fetch" /\ calls[c].outcome = "thrown"
    /\ Len(WorkingSet(session)) = 2

\* the positions of the records of a package in the session
RecordsOf(s, orderId) ==
  { i \in 1..Len(Records(s)) : Records(s)[i].trendyolOrderId = orderId }

(***************************************************************************)
(* C25: there is at most one processing record for a package id at all     *)
(* times, and no step of fetchAllShipmentPackages,                         *)
(* filterPackagesWithoutInvoices, processSelectedPackages or               *)
(* retryFailedInvoice removes a record; a fetch leaves every record as it  *)
(* is, so a completed record survives a re-fetch and the filter still      *)
(* leaves the package out.                                                 *)
(***************************************************************************)
C25_RecordsKept ==
  /\ [](\A i \in 1..Len(Records(session)) :
          /\ Records(session)[i].trendyolOrderId \in RecordIds
          /\ RecordsOf(session, Records(session)[i].trendyolOrderId) = { i })
  /\ [][/\ \A orderId \in RecordIds :
             RecordsOf(session, orderId) # {} => RecordsOf(session', orderId) # {}
        /\ \A c \in Calls : FetchStep(c) => Records(session') = Records(session)
        /\ \A c \in Calls :
             (FilterDone(calls'[c]) /\ calls'[c] # calls[c]) =>
               /\ Records(session') = Records(session)
               /\ \A k \in 1..Len(Filtered(calls'[c])) :
                    StatusOf(session', ToString(Filtered(calls'[c])[k].id)) # "completed"]_vars

\* package 1 was fetched again after its record was completed, and the
\* filter then left it out
C25_Witness ==
  \E c \in Calls :
    /\ FilterDone(calls[c])
    /\ StatusOf(session, "1") = "completed"
    /\ Len(calls[c].packages) = 2
    /\ Len(Filtered(calls[c])) = 1
    /\ getProcessedInvoice(session, "1").processedAt < LastFetchTime(session)

\* the error entries the invocation added to the log in its last step
ErrorsLogged(call) ==
  { i \in 1..Len(call.logged) : call.logged[i].level = "error" }

(***************************************************************************)
(* C26: nothing is swallowed silently: every failure of an operation of    *)
(* the service (a failed fetch, each failure of a package in               *)
(* processSelectedPackages, a failed retried pipeline, each rejection of a *)
(* retry and each precondition error) adds at least one log entry that     *)
(* describes the failure before the operation returns or throws.  The step *)
(* that throws, and each step that writes a record failed, adds an error   *)
(* entry.                                                                  *)
(***************************************************************************)
C26_EveryFailureLogged ==
  \A c \in Calls :
    /\ calls[c].outcome = "thrown" => ErrorsLogged(calls[c]) # {}
    /\ \A m \in 1..Len(calls[c].writes) :
         calls[c].writes[m].after = "failed" =>
           \E i \in ErrorsLogged(calls[c]) :
             calls[c].logged[i].id \in
               { "process-error-" \o calls[c].writes[m].orderId,
                 "retry-failed-" \o calls[c].writes[m].orderId }

(***************************************************************************)
(* Specification of the filter with a failing storage: as SpecFilter, and  *)
(* the lookup of the record raises for any set of package ids.             *)
(***************************************************************************)
LookupErrorSets == SUBSET RecordIds

NextLookup ==
  \E c \in Calls, packages \in FilterInputs, lookupErrors \in LookupErrorSets :
    Filter(c, TRUE, packages, lookupErrors)

SpecLookup == InitFilter /\ [][NextLookup]_vars

\* the lookup of the package's record raised in this call of the filter
LookupRaised(call, pkg) == ToString(pkg.id) \in call.lookupErrors

\* the packages of the input whose lookup raised and that are not 'Awaiting'
RaisedPositions(call) ==
  { i \in 1..Len(call.packages) :
      call.packages[i].status # "Awaiting" /\ LookupRaised(call, call.packages[i]) }

\* the warnings the call added to the log
WarningsLogged(call) ==
  { i \in 1..Len(call.logged) : call.logged[i].level = "warn" }

\* the positions of the input the filter has to keep when a lookup error
\* counts as 'no invoice exists'
KeptPositions(call) ==
  { i \in 1..Len(call.packages) :
      /\ call.packages[i].status # "Awaiting"
      /\ \/ LookupRaised(call, call.packages[i])
         \/ StatusOf(session, ToString(call.packages[i].id)) # "completed" }

(***************************************************************************)
(* C27: when the lookup of a package's record raises, the invoice-status   *)
(* check answers 'no invoice exists' and adds a warning to the log, and    *)
(* filterPackagesWithoutInvoices returns normally and keeps the package    *)
(* unless it is 'Awaiting', whatever record is stored for it: a lookup     *)
(* error never counts as already invoiced.                                 *)
(***************************************************************************)
C27_LookupErrorKeeps ==
  \A c \in Calls :
    FilterDone(calls[c]) =>
      LET call == calls[c]
          kept == KeptPositions(call)
      IN /\ call.outcome = "returned"
         /\ Cardinality(WarningsLogged(call)) = Cardinality(RaisedPositions(call))
         /\ Len(Filtered(call)) = Cardinality(kept)
         /\ \A k \in 1..Cardinality(kept) : Filtered(call)[k] = call.packages[Nth(kept, k)]
         /\ \A i \in 1..Len(call.packages) :
              call.packages[i].status = "Awaiting" =>
                \A k \in 1..Len(Filtered(call)) : Filtered(call)[k] # call.packages[i]

\* the lookup raised for a package whose record is completed and the filter
\* returned the package; it raised for an 'Awaiting' package too
C27_Witness ==
  \E c \in Calls :
    /\ FilterDone(calls[c])
    /\ calls[c].lookupErrors = { "1", "2" }
    /\ Len(calls[c].packages) = 2
    /\ calls[c].packages[1].status = "Awaiting"
    /\ StatusOf(session, ToString(calls[c].packages[2].id)) = "completed"
    /\ Filtered(calls[c]) = << calls[c].packages[2] >>
    /\ Cardinality(WarningsLogged(calls[c])) = 1

(***************************************************************************)
(* Specification of the error classification: a record failed with one of  *)
(* the permanent errors the code can store for a package (a validation     *)
(* failure of the package or of the invoice, or an authentication,         *)
(* permission or conflict answer of the Trendyol API), and the retry gate  *)
(* is asked about it.                                                      *)
(***************************************************************************)
\* TrendyolApiClient.handleApiResponse for a response that is not ok and has
\* no body
handleApiResponse(status, statusText) ==
  CASE status = 401 -> "Authentication failed: Invalid API credentials"
    [] status = 403 -> "Access forbidden: Check your API permissions"
    [] status = 404 -> "Resource not found: Check your supplier ID and endpoint"
    [] status = 429 -> "Rate limit exceeded: Too many requests"
    [] status \in { 500, 502, 503, 504 } -> "Trendyol server error: Please try again later"
    [] OTHER -> "HTTP " \o ToString(status) \o ": " \o statusText

\* the error TrendyolApiClient.sendInvoiceToOrder throws for a failed request
sendInvoiceToOrderError(orderId, cause) ==
  "Failed to send invoice to order " \o orderId \o ": " \o cause

\* the answers of the Trendyol API that need the user: bad credentials,
\* missing permission, conflict
PermanentResponses ==
  { << 401, "Unauthorized" >>, << 403, "Forbidden" >>, << 409, "Conflict" >> }

ClassifyIds == { 1, 2, 35, 1500, 4291, 25031 }

\* the positions of the defective line of a package
BadLinePositions == { 1, 2, 3 }

BadLines ==
  { PackageLine("", 10000, 2, 8403, "RON"), PackageLine("Shirt", 0, 2, 0, "RON"),
    PackageLine("Shirt", 10000, 0, 8403, "RON") }

\* packages that fail a validation
InvalidPackages(id) ==
  { ShipmentPackage(id, "Created", NoNameAddress, << GoodLine >>),
    ShipmentPackage(id, "Created", BlankNameAddress, << GoodLine >>),
    ShipmentPackage(id, "Created", GoodAddress, << >>) }
  \cup { ShipmentPackage(id, "Created", GoodAddress,
                         [i \in 1..n |-> IF i = n THEN line ELSE GoodLine]) :
           n \in BadLinePositions, line \in BadLines }

\* the message the pipeline stores for a package that fails a validation
ValidationMessage(pkg, time) ==
  LET packageValidation == validateTrendyolPackage(pkg)
      invoiceValidation ==
        validateTransformedData(
          trendyolPackageToOblioInvoice(pkg, TransformConfig(GoodConfig), time))
  IN IF Len(packageValidation) > 0
     THEN "Package validation failed: " \o join(packageValidation, ", ")
     ELSE "Invoice validation failed: " \o join(invoiceValidation, ", ")

PermanentErrors(id, time) ==
  { ValidationMessage(pkg, time) : pkg \in InvalidPackages(id) }
  \cup { handleApiResponse(r[1], r[2]) : r \in PermanentResponses }
  \cup { sendInvoiceToOrderError(ToString(id), handleApiResponse(r[1], r[2])) :
           r \in PermanentResponses }

\* the record of the package is failed with the message; the gate of
\* retryFailedInvoice is asked
Classify(c, packageId, errorMessage) ==
  /\ CanStart(c, TRUE)
  /\ LET processedInvoice ==
           [trendyolOrderId |-> packageId, status |-> "failed",
            errorMessage |-> errorMessage, processedAt |-> now]
     IN Commit(session, c,
          Returned(Merge(NewCall, [op |-> "classify", packageId |-> packageId,
                                   processedInvoice |-> processedInvoice]),
                   [result |-> [errorCode |-> extractErrorCode(errorMessage),
                                rejection |-> retryGate(processedInvoice,
                                                        getAutoRetryCount(settings),
                                                        packageId, now)]]))

NextClassify ==
  \E c \in Calls, id \in ClassifyIds :
    \E errorMessage \in PermanentErrors(id, now) : Classify(c, ToString(id), errorMessage)

SpecClassify == Init /\ [][NextClassify]_vars

ClassifyDone(call) == call.op = "classify" /\ call.pc = "done"

(***************************************************************************)
(* C28: a record that failed with a validation failure (of the package or  *)
(* of the invoice), an authentication failure or a conflict of the         *)
(* marketplace is classified NON_RETRYABLE_ERROR from the stored error     *)
(* text, for every package id and every validation message the code can    *)
(* produce, and a retry of the record is rejected as not retryable.        *)
(***************************************************************************)
C28_PermanentErrorsTerminal ==
  \A c \in Calls :
    ClassifyDone(calls[c]) =>
      /\ calls[c].result.errorCode = "NON_RETRYABLE_ERROR"
      /\ calls[c].result.rejection =
           "Error for package " \o calls[c].packageId
             \o " is not retryable: NON_RETRYABLE_ERROR"

(***************************************************************************)
(* Specification of the transform: trendyolPackageToOblioInvoice is        *)
(* applied to a package value, well formed or not.                         *)
(***************************************************************************)
\* a value without the property f
WithoutProperty(r, f) == [g \in DOMAIN r \ { f } |-> r[g]]

\* the TypeError of the property reads the transform makes without a guard:
\* invoiceAddress.firstName in mapCustomerToOblioClient, then lines.map in
\* mapPackageLinesToOblioProducts; "" when every read succeeds
transformTypeError(pkg) ==
  IF ~Has(pkg, "invoiceAddress")
  THEN "Cannot read properties of undefined (reading 'firstName')"
  ELSE IF ~Has(pkg, "lines")
  THEN "Cannot read properties of undefined (reading 'map')"
  ELSE ""

TransformIds == 1..4
TransformAddresses == { GoodAddress, NoNameAddress, BlankNameAddress }
TransformLines ==
  { << GoodLine >>, << >>,
    << PackageLine("Shirt", 10000, 0, 8403, "RON") >>,
    << PackageLine("", 10000, 2, 8403, "RON") >>,
    << PackageLine("Shirt", 0, 2, 0, "") >>,
    << GoodLine, PackageLine("Shirt", 10000, 0, 8403, "EUR") >> }

\* the package values handed to the transform: complete ones, and ones with
\* the invoice address, the lines or both left out
TransformPackages ==
  LET complete == { ShipmentPackage(id, "Created", address, lines) :
                      id \in TransformIds, address \in TransformAddresses,
                      lines \in TransformLines }
  IN complete
     \cup { WithoutProperty(pkg, "invoiceAddress") : pkg \in complete }
     \cup { WithoutProperty(pkg, "lines") : pkg \in complete }
     \cup { WithoutProperty(WithoutProperty(pkg, "lines"), "invoiceAddress") :
              pkg \in complete }

Transform(c, pkg) ==
  /\ CanStart(c, TRUE)
  /\ LET call == Merge(NewCall, [op |-> "transform", packages |-> << pkg >>])
     IN IF transformTypeError(pkg) # ""
        THEN Commit(session, c, Thrown(call, transformTypeError(pkg)))
        ELSE Commit(session, c,
               Returned(call,
                 [result |-> trendyolPackageToOblioInvoice(
                               pkg, TransformConfig(GoodConfig), now)]))

NextTransform == \E c \in Calls, pkg \in TransformPackages : Transform(c, pkg)

SpecTransform == Init /\ [][NextTransform]_vars

TransformDone(call) == call.op = "transform" /\ call.pc = "done"

(***************************************************************************)
(* C29: the transform never throws for a malformed package: for every      *)
(* package value, one without an invoice address or without lines          *)
(* included, it returns an invoice request.                                *)
(***************************************************************************)
C29_TransformNeverThrows ==
  \A c \in Calls :
    TransformDone(calls[c]) =>
      /\ calls[c].outcome = "returned"
      /\ Has(calls[c].result, "client")
      /\ Has(calls[c].result, "products")

(***************************************************************************)
(* Specification of the two pipelines side by side: the caller processes   *)
(* package 1 (invocation 1) and retries it (invocation 2), one call at a   *)
(* time, and each invocation keeps the history of its last run.            *)
(***************************************************************************)
InitPipeline ==
  /\ session = Null
  /\ config = GoodConfig
  /\ settings = StoredSettings
  /\ now = 0
  /\ calls = [c \in Calls |-> NewCall]
  /\ completedOnce = {}
  /\ attempts = Null
  /\ dashboard = NewDashboard

NextPipeline ==
  \/ \E c \in Calls : FetchStart(c, TRUE)
  \/ \E c \in Calls : FetchResolved(c, << Pkg1 >>)
  \/ \E c \in Calls : ProcessStart(c, TRUE, << "1" >>)
  \/ \E c \in Calls : ProcessConfigResolved(c)
  \/ \E c \in Calls : ProcessImportResolved(c)
  \/ \E c \in Calls, oblioInvoice \in OblioResponses : ProcessCreateResolved(c, oblioInvoice)
  \/ \E c \in Calls, message \in CreateErrors : ProcessCreateRejected(c, message)
  \/ \E c \in Calls : ProcessLinkResolved(c)
  \/ \E c \in Calls, message \in LinkErrors : ProcessLinkRejected(c, message)
  \/ ~Suspended(calls[1]) /\ RetryStart(2, FALSE, "1")
  \/ \E c \in Calls : RetryConfigResolved(c)
  \/ \E c \in Calls : RetryImportResolved(c)
  \/ \E c \in Calls, oblioInvoice \in OblioResponses : RetryCreateResolved(c, oblioInvoice)
  \/ \E c \in Calls, message \in CreateErrors : RetryCreateRejected(c, message)
  \/ \E c \in Calls : RetryLinkResolved(c)
  \/ \E c \in Calls, message \in LinkErrors : RetryLinkRejected(c, message)

SpecPipeline == InitPipeline /\ [][NextPipeline]_vars

\* the collaborators answered the two invocations alike, as far as both asked
SameResponses(p, r) ==
  \A i \in 1..Len(p.remoteCalls) :
    i <= Len(r.remoteCalls) =>
      /\ p.remoteCalls[i].outcome = r.remoteCalls[i].outcome
      /\ p.remoteCalls[i].value = r.remoteCalls[i].value

\* the status the invocation's last storage write left the record with
EndStatus(call) ==
  IF Len(call.writes) = 0 THEN "none" ELSE call.writes[Len(call.writes)].after

\* invocation 1 processed package 1 and invocation 2 ran an accepted retry
\* of it
ProcessedAndRetried ==
  /\ ProcessReturned(calls[1]) /\ calls[1].packageIds = << "1" >>
  /\ calls[2].op = "retry" /\ calls[2].pc = "done" /\ calls[2].packageId = "1"
  /\ ~RejectedAtGate(calls[2])

(***************************************************************************)
(* C30: the pipeline of an accepted retry is the pipeline of               *)
(* processSelectedPackages: for the same package, configuration and        *)
(* collaborator responses, an attempt through processSelectedPackages and  *)
(* an accepted retry make the same remote calls in the same order and      *)
(* leave the record with the same status.                                  *)
(***************************************************************************)
C30_SamePipeline ==
  (ProcessedAndRetried /\ SameResponses(calls[1], calls[2])) =>
    /\ calls[1].remoteCalls = calls[2].remoteCalls
    /\ EndStatus(calls[1]) = EndStatus(calls[2])

(***************************************************************************)
(* Specification of interleaved user actions: an invocation may start      *)
(* while another is suspended at an await, so a fetch, a process and a     *)
(* retry can overlap.                                                      *)
(***************************************************************************)
InterleaveWorkingSets == { << Pkg1, Pkg2 >>, << Pkg1 >> }

InitInterleave ==
  /\ session = Null
  /\ config = GoodConfig
  /\ settings = StoredSettings
  /\ now = 0
  /\ calls = [c \in Calls |-> NewCall]
  /\ completedOnce = {}
  /\ attempts = Null
  /\ dashboard = NewDashboard

NextInterleave ==
  \/ \E c \in Calls : FetchStart(c, FALSE)
  \/ \E c \in Calls, packages \in InterleaveWorkingSets : FetchResolved(c, packages)
  \/ \E c \in Calls : ProcessStart(c, FALSE, << "1", "2" >>)
  \/ \E c \in Calls : ProcessConfigResolved(c)
  \/ \E c \in Calls : ProcessImportResolved(c)
  \/ \E c \in Calls : ProcessCreateResolved(c, TopLinkResponse(InvoiceLink))
  \/ \E c \in Calls, message \in CreateErrors : ProcessCreateRejected(c, message)
  \/ \E c \in Calls : ProcessLinkResolved(c)
  \/ \E c \in Calls : RetryStart(c, FALSE, "1")
  \/ \E c \in Calls : RetryConfigResolved(c)
  \/ \E c \in Calls : RetryImportResolved(c)
  \/ \E c \in Calls : RetryCreateResolved(c, TypedResponse(InvoiceLink))
  \/ \E c \in Calls : RetryLinkResolved(c)

SpecInterleave == InitInterleave /\ [][NextInterleave]_vars


\* slot c takes a step of an invocation of processSelectedPackages
ProcessStep(c) == calls'[c] # calls[c] /\ calls'[c].op = "process"

(***************************************************************************)
(* C31: the orchestrator does not mutate on the basis of session state it  *)
(* read before an await: when another user action replaces the working set *)
(* while processSelectedPackages is suspended at a network call, the       *)
(* remaining steps use the session state of that moment, so every package  *)
(* whose record the call then starts (writes pending) is a package of the  *)
(* current working set.                                                    *)
(***************************************************************************)
C31_UsesCurrentSession ==
  [][\A c \in Calls :
       ProcessStep(c) =>
         \A i \in 1..Len(calls'[c].writes) :
           calls'[c].writes[i].after = "pending" =>
             calls'[c].writes[i].orderId \in SessionIds']_vars

(***************************************************************************)
(* Specification of the pipelines under the assumption that every          *)
(* collaborator call settles: processSelectedPackages over one or two      *)
(* packages and retryFailedInvoice, one call at a time; an await that is   *)
(* pending is eventually resolved or rejected.                             *)
(***************************************************************************)
SettleResponses == { TopLinkResponse(InvoiceLink), TypedResponse("") }

NextSettle ==
  \/ \E c \in Calls : FetchStart(c, TRUE)
  \/ \E c \in Calls : FetchResolved(c, << Pkg1, Pkg2 >>)
  \/ \E c \in Calls : ProcessStart(c, TRUE, << "1", "2" >>)
  \/ \E c \in Calls : RetryStart(c, TRUE, "1")
  \/ \E c \in Calls : ProcessConfigResolved(c)
  \/ \E c \in Calls : ProcessImportResolved(c)
  \/ \E c \in Calls, oblioInvoice \in SettleResponses : ProcessCreateResolved(c, oblioInvoice)
  \/ \E c \in Calls, message \in CreateErrors : ProcessCreateRejected(c, message)
  \/ \E c \in Calls : ProcessLinkResolved(c)
  \/ \E c \in Calls, message \in LinkErrors : ProcessLinkRejected(c, message)
  \/ \E c \in Calls : RetryConfigResolved(c)
  \/ \E c \in Calls : RetryImportResolved(c)
  \/ \E c \in Calls, oblioInvoice \in SettleResponses : RetryCreateResolved(c, oblioInvoice)
  \/ \E c \in Calls, message \in CreateErrors : RetryCreateRejected(c, message)
  \/ \E c \in Calls : RetryLinkResolved(c)
  \/ \E c \in Calls, message \in LinkErrors : RetryLinkRejected(c, message)

\* some invocation is suspended at an await
AwaitPending == \E c \in Calls : Suspended(calls[c])

\* a suspended invocation is resumed: its await resolved or rejected
AwaitSettled == \E c \in Calls : Suspended(calls[c]) /\ calls'[c] # calls[c]

\* every collaborator call eventually resolves or rejects: weak fairness of
\* the steps that resume a suspended invocation, which are enabled exactly
\* while an await is pending (WF_vars(A) is []<>~ENABLED <<A>>_vars \/
\* []<><<A>>_vars)
SettleFairness == ([]<>(~AwaitPending)) \/ ([]<><<AwaitSettled>>_vars)

SpecSettle == InitPipeline /\ [][NextSettle]_vars /\ SettleFairness

\* the invocation is suspended inside an attempt on the package, whose
\* record it has written pending
Attempting(c, packageId) ==
  \/ /\ calls[c].op = "process" /\ calls[c].pc \in { "awaitCreate", "awaitLink" }
     /\ ToString(calls[c].cur.id) = packageId
  \/ /\ calls[c].op = "retry" /\ Suspended(calls[c])
     /\ calls[c].packageId = packageId

\* the invocation's last step wrote the package's record completed or failed
AttemptEnded(c, packageId) ==
  \E i \in 1..Len(calls[c].writes) :
    /\ calls[c].writes[i].orderId = packageId
    /\ calls[c].writes[i].after \in { "completed", "failed" }

(***************************************************************************)
(* C32: no attempt is abandoned mid-pipeline: once an attempt has written  *)
(* the package's record pending (in particular once createInvoice has been *)
(* called), the attempt eventually writes the record completed or failed,  *)
(* provided every collaborator call eventually resolves or rejects.        *)
(***************************************************************************)
C32_AttemptEnds ==
  \A c \in Calls : \A packageId \in RecordIds :
    (Attempting(c, packageId) /\ StatusOf(session, packageId) = "pending")
      ~> AttemptEnded(c, packageId)

C32_Witness ==
  \E c \in Calls :
    /\ calls[c].op = "process" /\ calls[c].pc = "awaitCreate"
    /\ ToString(calls[c].cur.id) = "2"
    /\ AttemptEnded(c, "1")
    /\ SettledCalls(calls[c], "createInvoice", "1", "rejected") # {}

(***************************************************************************)
(* Specification of the classifier over error texts: texts made of one or  *)
(* two phrases, in lower, upper or mixed case, among them the texts of the *)
(* unit tests and the empty text.                                          *)
(***************************************************************************)
ErrorPhrases ==
  { "", "Network", "CONNECTION refused", "Fetch request", "Rate limit exceeded",
    "Too Many Requests", "HTTP 429", "Server error", "500", "502 Bad Gateway",
    "503", "Request timeout", "Operation TIMED OUT", "Temporary",
    "Service unavailable", "Invalid credentials", "Validation failed" }

ErrorTexts ==
  { first \o (IF first = "" \/ second = "" THEN "" ELSE " ") \o second :
      first \in ErrorPhrases, second \in ErrorPhrases }

NextErrorCode ==
  \E c \in Calls, errorMessage \in ErrorTexts : Classify(c, "1", errorMessage)

SpecErrorCode == Init /\ [][NextErrorCode]_vars

\* the rules in the order the specification lists the categories
ErrorRules ==
  << [code |-> "NETWORK_ERROR", keywords |-> { "network", "connection", "fetch" }],
     [code |-> "RATE_LIMIT", keywords |-> { "rate limit", "too many requests", "429" }],
     [code |-> "SERVER_ERROR", keywords |-> { "server error", "500", "502", "503" }],
     [code |-> "TIMEOUT_ERROR", keywords |-> { "timeout", "timed out" }],
     [code |-> "TEMPORARY_ERROR", keywords |-> { "temporary", "unavailable" }] >>

\* the rules a text matches, case-insensitively
MatchingRules(text) ==
  { k \in 1..Len(ErrorRules) :
      \E keyword \in ErrorRules[k].keywords : includes(toLowerCase(text), keyword) }

FirstMatch(text) ==
  IF MatchingRules(text) = {} THEN "NON_RETRYABLE_ERROR"
  ELSE ErrorRules[CHOOSE k \in MatchingRules(text) :
                    \A j \in MatchingRules(text) : k <= j].code

(***************************************************************************)
(* C33: the classifier is total and deterministic: every error text maps   *)
(* to the category of the first rule it matches, case-insensitively, in    *)
(* the order NETWORK_ERROR, RATE_LIMIT, SERVER_ERROR, TIMEOUT_ERROR,        *)
(* TEMPORARY_ERROR, and to NON_RETRYABLE_ERROR when it matches none (the   *)
(* empty text included); retry accepts exactly the first five.             *)
(***************************************************************************)
C33_FirstMatchingRule ==
  \A c \in Calls :
    ClassifyDone(calls[c]) =>
      LET text == calls[c].processedInvoice.errorMessage
          errorCode == calls[c].result.errorCode
      IN /\ errorCode = FirstMatch(text)
         /\ (calls[c].result.rejection = "") <=> (errorCode # "NON_RETRYABLE_ERROR")
         /\ calls[c].result.rejection # "" =>
              calls[c].result.rejection =
                "Error for package 1 is not retryable: NON_RETRYABLE_ERROR"

\* a text that matches the network rule and the timeout rule
C33_Witness ==
  \E c \in Calls :
    /\ ClassifyDone(calls[c])
    /\ calls[c].processedInvoice.errorMessage = "Fetch request Operation TIMED OUT"
    /\ calls[c].result.errorCode = "NETWORK_ERROR"
    /\ calls[c].result.rejection = ""

(***************************************************************************)
(* Specification of the session log with the capacity of the code: entries *)
(* are added one after the other, each stamped with its sequence number,   *)
(* until the log has been full for a while.                                *)
(***************************************************************************)
LogCapacity == 1000

\* the number of entries added after which the caller stops
MaxLogged == 1100

Logs == sessionOrDefault(session).syncLogs

\* the sequence number of the next entry: one more than the newest one's
NextStamp == IF Len(Logs) = 0 THEN 1 ELSE Logs[Len(Logs)].timestamp + 1

AddLog(c, level) ==
  /\ CanStart(c, TRUE)
  /\ NextStamp <= MaxLogged
  /\ LET entry == Merge(LogEntry("entry", level), [timestamp |-> NextStamp])
     IN Commit(addLogEntryWithin(session, entry, LogCapacity), c,
               Returned(Merge(NewCall, [op |-> "log"]), << >>))

NextLog ==
  \E c \in Calls : AddLog(c, IF NextStamp % 2 = 0 THEN "info" ELSE "error")

SpecLog == Init /\ [][NextLog]_vars

(***************************************************************************)
(* C34: the session log never holds more than 1000 entries after any       *)
(* sequence of addLogEntry calls; an entry added to a full log evicts the  *)
(* oldest one, and the remaining entries keep their insertion order with   *)
(* the new entry last.                                                     *)
(***************************************************************************)
C34_LogCapped ==
  /\ [](Len(Logs) <= 1000)
  /\ [][calls' # calls =>
          LET added == calls'[1].logged[1]
          IN Logs' = IF Len(Logs) = 1000 THEN Append(Tail(Logs), added)
                     ELSE Append(Logs, added)]_vars

\* entries were added to a full log: the oldest ones are gone
C34_Witness ==
  /\ Len(Logs) = 1000
  /\ Logs[1].timestamp = 51
  /\ Logs[1000].timestamp = 1050

(***************************************************************************)
(* TrendyolApiClient.makeRequestWithRetry: one logical call, its HTTP      *)
(* requests (requestFn) and the delays between them.  The requests are the *)
(* remoteCalls of the invocation; a response is its status, a rejection    *)
(* the error fetch threw.                                                  *)
(***************************************************************************)
RequestMaxRetries == 3

HttpStatuses == { 200, 401, 404, 429, 500, 503 }

FetchFailures ==
  { [name |-> "TypeError", message |-> "Failed to fetch"],
    [name |-> "TypeError", message |-> "Load failed"],
    [name |-> "AbortError", message |-> "The operation was aborted"] }

\* requestFn is called
issueRequest(call) ==
  [call EXCEPT !.pc = "awaitRequest",
               !.remoteCalls = Append(@, RemoteCall("requestFn", ""))]

\* the request is to be repeated: throw when no retry is left, else wait
retryOrThrow(call, message) ==
  IF call.attempt = call.maxRetries
  THEN Thrown(call, message)
  ELSE [call EXCEPT !.pc = "awaitDelay"]

RequestStart(c, serial) ==
  /\ CanStart(c, serial)
  /\ Commit(session, c,
            issueRequest(Merge(NewCall, [op |-> "request", attempt |-> 0,
                                         maxRetries |-> RequestMaxRetries])))

\* variant: every response that is not ok is retried
RequestResolvedRetriesErrors(c, status) ==
  /\ calls[c].op = "request" /\ calls[c].pc = "awaitRequest"
  /\ LET call == Settled(c, "resolved", [status |-> status])
     IN Commit(session, c,
          IF status >= 400
          THEN retryOrThrow(call, "Rate limit exceeded: Maximum retries reached")
          ELSE Returned(call, [result |-> [status |-> status]]))

RequestResolved(c, status) ==
  /\ calls[c].op = "request" /\ calls[c].pc = "awaitRequest"
  /\ LET call == Settled(c, "resolved", [status |-> status])
     IN Commit(session, c,
          IF status = 429
          THEN retryOrThrow(call, "Rate limit exceeded: Maximum retries reached")
          ELSE IF status >= 500 /\ status < 600
          THEN retryOrThrow(call, "Server error: HTTP " \o ToString(status) \o " after "
                                    \o ToString(call.maxRetries) \o " retries")
          ELSE Returned(call, [result |-> [status |-> status]]))

RequestRejected(c, error) ==
  /\ calls[c].op = "request" /\ calls[c].pc = "awaitRequest"
  /\ LET call == Settled(c, "rejected", error)
     IN Commit(session, c,
          IF error.name = "TypeError" /\ includes(error.message, "fetch")
          THEN retryOrThrow(call, "Network error: Unable to connect after "
                                    \o ToString(call.maxRetries) \o " retries")
          ELSE Thrown(call, error.message))

\* the delay is over: the loop goes on with the next attempt
RequestDelayResolved(c) ==
  /\ calls[c].op = "request" /\ calls[c].pc = "awaitDelay"
  /\ Commit(session, c, issueRequest([Resumed(c) EXCEPT !.attempt = @ + 1]))

NextRequest ==
  \/ \E c \in Calls : RequestStart(c, TRUE)
  \/ \E c \in Calls, status \in HttpStatuses : RequestResolved(c, status)
  \/ \E c \in Calls, error \in FetchFailures : RequestRejected(c, error)
  \/ \E c \in Calls : RequestDelayResolved(c)

SpecRequest == Init /\ [][NextRequest]_vars

\* the request settled with a 429 response, a 5xx response or a network
\* failure
Retriable(request) ==
  \/ /\ request.outcome = "resolved"
     /\ request.value.status = 429 \/ request.value.status \in 500..599
  \/ /\ request.outcome = "rejected"
     /\ request.value.name = "TypeError" /\ includes(request.value.message, "fetch")

(***************************************************************************)
(* C35: a logical call through makeRequestWithRetry makes at most 4 HTTP   *)
(* requests (1 initial + 3 retries); a request is repeated only after a    *)
(* 429 response, a 5xx response or a network failure; any other response   *)
(* is returned after that single request; and when the fourth request      *)
(* fails the same way the call throws one error and asks no more.          *)
(***************************************************************************)
C35_RequestBudget ==
  \A c \in Calls :
    calls[c].op = "request" =>
      LET call == calls[c]
          requests == call.remoteCalls
          last == requests[Len(requests)]
      IN /\ Len(requests) <= 4
         /\ \A i \in 1..(Len(requests) - 1) : Retriable(requests[i])
         /\ (last.outcome = "resolved" /\ ~Retriable(last)) =>
              /\ call.pc = "done" /\ call.outcome = "returned"
              /\ call.result = last.value
         /\ (Len(requests) = 4 /\ Retriable(last)) =>
              /\ call.pc = "done" /\ call.outcome = "thrown" /\ call.error # ""
         /\ call.pc = "awaitDelay" => (Retriable(last) /\ Len(requests) < 4)

C35_Witness ==
  \E c \in Calls :
    /\ calls[c].op = "request" /\ calls[c].pc = "done"
    /\ Len(calls[c].remoteCalls) = 4
    /\ \A i \in 1..4 : calls[c].remoteCalls[i].value = [status |-> 429]
    /\ calls[c].error = "Rate limit exceeded: Maximum retries reached"

(***************************************************************************)
(* Dashboard: the handlers of the fetch and the process button.  An        *)
(* invocation is a click; the methods of the sync service the handlers     *)
(* await are its remoteCalls, and what such a method leaves in the storage *)
(* is applied when it settles (its own steps are the Fetch*, Process*      *)
(* actions above).                                                         *)
(***************************************************************************)
\* what a click can find selected in the orders table
SelectedIds == { << >>, << "1" >>, << "1", "2" >>, << "3" >> }

DashboardFetchResults == { << >>, << Pkg1 >>, << Pkg1, Pkg2Awaiting >>, << Pkg1, Pkg2 >> }

\* the step of a handler in slot c ends
DashboardCommit(s, c, call, newDashboard) ==
  /\ session' = IF IsNull(s) THEN s ELSE [s EXCEPT !.written = << >>]
  /\ calls' = [calls EXCEPT ![c] =
                 [call EXCEPT !.logged = IF IsNull(s) THEN << >> ELSE s.written]]
  /\ dashboard' = newDashboard
  /\ UNCHANGED << config, settings, now, completedOnce, attempts >>

\* this.syncService.filterPackagesWithoutInvoices(packages): its log entries
filterLogs(s, packages) ==
  addLogEntry(checkInvoiceLinkStatusLogs(addLogEntry(s, LogEntry("filter", "info")),
                                         packages, {}),
              LogEntry("filter-complete", "info"))

\* a sync-service method is called and awaited
awaitService(call, pc, api, packageId) ==
  [call EXCEPT !.pc = pc, !.remoteCalls = Append(@, RemoteCall(api, packageId))]

DashboardFetchStart(c) ==
  /\ CanStart(c, FALSE)
  /\ LET call == Merge(NewCall, [op |-> "dashboardFetch"])
     IN IF dashboard.isLoading
        THEN DashboardCommit(session, c, Returned(call, << >>), dashboard)
        ELSE DashboardCommit(addLogEntry(session, LogEntry("fetch", "info")), c,
               awaitService(call, "awaitFetchAll", "fetchAllShipmentPackages", ""),
               [dashboard EXCEPT !.isLoading = TRUE])

DashboardFetchResolved(c, packages) ==
  /\ calls[c].op = "dashboardFetch" /\ calls[c].pc = "awaitFetchAll"
  /\ LET s1 == addLogEntry(session, LogEntry("fetch-complete", "info"))
         s2 == updateSessionPackages(s1, packages, now)
         filteredPackages == filterPackagesWithoutInvoices(s2, packages, {})
     IN DashboardCommit(filterLogs(s2, packages), c,
          Returned(Settled(c, "resolved", packages), << >>),
          [isLoading |-> FALSE, currentPackages |-> packages,
           filteredPackages |-> filteredPackages])

\* variant: the busy flag is not cleared when the fetch fails
DashboardFetchRejectedStaysBusy(c, message) ==
  /\ calls[c].op = "dashboardFetch" /\ calls[c].pc = "awaitFetchAll"
  /\ DashboardCommit(addLogEntry(session, LogEntry("fetch-error", "error")), c,
       Returned(Settled(c, "rejected", Rejection(message)), << >>),
       [isLoading |-> TRUE, currentPackages |-> << >>, filteredPackages |-> << >>])

DashboardFetchRejected(c, message) ==
  /\ calls[c].op = "dashboardFetch" /\ calls[c].pc = "awaitFetchAll"
  /\ DashboardCommit(addLogEntry(session, LogEntry("fetch-error", "error")), c,
       Returned(Settled(c, "rejected", Rejection(message)), << >>),
       [isLoading |-> FALSE, currentPackages |-> << >>, filteredPackages |-> << >>])

\* processPackagesWithProgress goes to the next package, or returns and the
\* handler finishes
dashboardProcessLoop(s, c, call) ==
  IF Len(call.queue) = 0
  THEN LET refreshed == call.successCount > 0
           s1 == IF refreshed THEN filterLogs(s, dashboard.currentPackages) ELSE s
       IN DashboardCommit(s1, c,
            Returned(call, [result |-> [totalOrders |-> call.totalOrders,
                                        successCount |-> call.successCount,
                                        failureCount |-> call.failureCount]]),
            [dashboard EXCEPT
               !.isLoading = FALSE,
               !.filteredPackages =
                 IF refreshed
                 THEN filterPackagesWithoutInvoices(s, dashboard.currentPackages, {})
                 ELSE @])
  ELSE DashboardCommit(s, c,
         awaitService([call EXCEPT !.cur = Head(call.queue), !.queue = Tail(call.queue)],
                      "awaitProcess", "processSelectedPackages",
                      ToString(Head(call.queue).id)),
         [dashboard EXCEPT !.isLoading = TRUE])

DashboardProcessStart(c, selectedIds) ==
  /\ CanStart(c, FALSE)
  /\ LET call == Merge(NewCall, [op |-> "dashboardProcess", packageIds |-> selectedIds])
         Selected(pkg) == arrayIncludes(selectedIds, ToString(pkg.id))
         packagesToProcess == SelectSeq(dashboard.filteredPackages, Selected)
     IN IF dashboard.isLoading \/ Len(selectedIds) = 0
        THEN DashboardCommit(session, c, Returned(call, << >>), dashboard)
        ELSE IF Len(packagesToProcess) = 0
        THEN DashboardCommit(session, c,
               Returned(Merge(call, [error |-> NoMatchMessage]), << >>),
               [dashboard EXCEPT !.isLoading = FALSE])
        ELSE dashboardProcessLoop(session, c,
               [call EXCEPT !.queue = packagesToProcess,
                            !.totalOrders = Len(packagesToProcess)])

\* processSelectedPackages([packageId]) resolved: the record of the package is
\* completed or failed
DashboardProcessResolved(c, succeeded) ==
  /\ calls[c].op = "dashboardProcess" /\ calls[c].pc = "awaitProcess"
  /\ LET packageId == ToString(calls[c].cur.id)
         singlePackageResult ==
           [successCount |-> IF succeeded THEN 1 ELSE 0,
            failureCount |-> IF succeeded THEN 0 ELSE 1]
         call == Settled(c, "resolved", singlePackageResult)
         s1 == addProcessedInvoice(session,
                 [trendyolOrderId |-> packageId,
                  status |-> IF succeeded THEN "completed" ELSE "failed",
                  processedAt |-> now])
     IN DashboardCommit(s1, c,
          [call EXCEPT !.pc = "awaitProgressDelay",
                       !.successCount = @ + singlePackageResult.successCount,
                       !.failureCount = @ + singlePackageResult.failureCount],
          dashboard)

DashboardProcessRejected(c, message) ==
  /\ calls[c].op = "dashboardProcess" /\ calls[c].pc = "awaitProcess"
  /\ DashboardCommit(session, c,
       [Settled(c, "rejected", Rejection(message)) EXCEPT
          !.pc = "awaitProgressDelay", !.failureCount = @ + 1],
       dashboard)

DashboardProgressDelayResolved(c) ==
  /\ calls[c].op = "dashboardProcess" /\ calls[c].pc = "awaitProgressDelay"
  /\ dashboardProcessLoop(session, c, Resumed(c))

InitDashboard ==
  /\ session = Null
  /\ config = GoodConfig
  /\ settings = StoredSettings
  /\ now = 0
  /\ calls = [c \in Calls |-> NewCall]
  /\ completedOnce = {}
  /\ attempts = Null
  /\ dashboard = NewDashboard

NextDashboard ==
  \/ \E c \in Calls : DashboardFetchStart(c)
  \/ \E c \in Calls, packages \in DashboardFetchResults : DashboardFetchResolved(c, packages)
  \/ \E c \in Calls, message \in FetchErrors : DashboardFetchRejected(c, message)
  \/ \E c \in Calls, selectedIds \in SelectedIds : DashboardProcessStart(c, selectedIds)
  \/ \E c \in Calls, succeeded \in BOOLEAN : DashboardProcessResolved(c, succeeded)
  \/ \E c \in Calls, message \in { NoConfigMessage } : DashboardProcessRejected(c, message)
  \/ \E c \in Calls : DashboardProgressDelayResolved(c)

SpecDashboard == InitDashboard /\ [][NextDashboard]_vars

\* the handlers that are waiting for the sync service or the progress delay
InFlight == { c \in Calls : Suspended(calls[c]) }

\* a click starts a handler in slot c
Triggered(c) ==
  /\ ~Suspended(calls[c]) /\ calls'[c] # calls[c]
  /\ calls'[c].op \in { "dashboardFetch", "dashboardProcess" }

(***************************************************************************)
(* C36: in the dashboard at most one user-triggered operation (fetch or    *)
(* process) is in flight at any time; a trigger that arrives while one is  *)
(* running returns at once without calling the sync service; and the busy  *)
(* flag is set exactly while an operation is running, so it is cleared     *)
(* when the operation finishes, whether it succeeded or failed.            *)
(***************************************************************************)
C36_OneOperation ==
  /\ [](Cardinality(InFlight) <= 1 /\ (dashboard.isLoading <=> InFlight # {}))
  /\ [][\A c \in Calls :
          (Triggered(c) /\ InFlight # {}) =>
            /\ calls'[c].pc = "done" /\ calls'[c].remoteCalls = << >>
            /\ dashboard' = dashboard /\ session' = session]_vars

\* a process is running after an earlier fetch finished, and a fetch
\* trigger that arrived meanwhile returned without calling the service
C36_Witness ==
  /\ calls[1].op = "dashboardProcess" /\ calls[1].pc = "awaitProcess"
  /\ dashboard.isLoading
  /\ calls[2].op = "dashboardFetch" /\ calls[2].pc = "done"
  /\ calls[2].remoteCalls = << >>


(***************************************************************************)
(* Specification of concurrent retries: fetches and processing runs are    *)
(* serial, while retryFailedInvoice may be invoked again while another     *)
(* invocation of it is suspended at an await.                              *)
(***************************************************************************)
OnlyRetriesSuspended == \A d \in Calls : Suspended(calls[d]) => calls[d].op = "retry"

NextRace ==
  \/ \E c \in Calls : FetchStart(c, TRUE)
  \/ \E c \in Calls : FetchResolved(c, << Pkg1, Pkg2 >>)
  \/ \E c \in Calls : ProcessStart(c, TRUE, << "1", "2" >>)
  \/ \E c \in Calls : ProcessConfigResolved(c)
  \/ \E c \in Calls : ProcessImportResolved(c)
  \/ \E c \in Calls : ProcessCreateResolved(c, TopLinkResponse(InvoiceLink))
  \/ \E c \in Calls, message \in CreateErrors : ProcessCreateRejected(c, message)
  \/ \E c \in Calls : ProcessLinkResolved(c)
  \/ \E c \in Calls, packageId \in RetryRequests :
       OnlyRetriesSuspended /\ RetryStart(c, FALSE, packageId)
  \/ \E c \in Calls : RetryConfigResolved(c)
  \/ \E c \in Calls : RetryImportResolved(c)
  \/ \E c \in Calls : RetryCreateResolved(c, TypedResponse(InvoiceLink))
  \/ \E c \in Calls, message \in CreateErrors : RetryCreateRejected(c, message)
  \/ \E c \in Calls : RetryLinkResolved(c)

SpecRace == InitPipeline /\ [][NextRace]_vars

\* slot c holds an invocation of retryFailedInvoice for the package that is
\* past the checks and suspended in the pipeline
RetryRunning(c, packageId) ==
  /\ calls[c].op = "retry" /\ Suspended(calls[c])
  /\ calls[c].packageId = packageId

\* slot c starts an invocation of retryFailedInvoice for the package
RetryInvoked(c, packageId) ==
  /\ ~Suspended(calls[c]) /\ calls'[c] # calls[c]
  /\ calls'[c].op = "retry" /\ calls'[c].packageId = packageId

(***************************************************************************)
(* C37: of two invocations of retryFailedInvoice for the same package that *)
(* overlap, at most one passes the checks and runs the pipeline: the       *)
(* status check and the write of pending happen in one step, so the        *)
(* invocation that starts while the other is suspended finds the status    *)
(* pending and is rejected, the record keeps the retryCount the first one  *)
(* wrote (one more than before), and the first one is not disturbed.       *)
(***************************************************************************)
C37_OneRetryRuns ==
  /\ [](\A packageId \in RecordIds :
          ~(RetryRunning(1, packageId) /\ RetryRunning(2, packageId)))
  /\ [][\A c, d \in Calls : \A packageId \in RecordIds :
          (c # d /\ RetryRunning(d, packageId) /\ RetryInvoked(c, packageId)) =>
            /\ calls'[c].pc = "done" /\ calls'[c].outcome = "thrown"
            /\ calls'[c].error = "Cannot retry invoice " \o packageId
                                 \o " - current status is pending"
            /\ calls'[c].writes = << >>
            /\ getProcessedInvoice(session', packageId)
                 = getProcessedInvoice(session, packageId)
            /\ Get(getProcessedInvoice(session', packageId), "retryCount")
                 = Val(calls[d].newRetryCount)
            /\ calls[d].newRetryCount
                 = (IF Has(calls[d].processedInvoice, "retryCount")
                    THEN calls[d].processedInvoice.retryCount ELSE 0) + 1
            /\ calls'[d] = calls[d]]_vars

\* the first retry of package 1 is suspended at the invoice creation, the
\* second one, started meanwhile, was rejected because the status is pending
C37_Witness ==
  /\ calls[1].op = "retry" /\ calls[1].pc = "awaitCreate" /\ calls[1].packageId = "1"
  /\ calls[1].newRetryCount = 1
  /\ calls[2].op = "retry" /\ calls[2].pc = "done" /\ calls[2].packageId = "1"
  /\ calls[2].error = "Cannot retry invoice 1 - current status is pending"
  /\ StatusOf(session, "1") = "pending"
  /\ Get(getProcessedInvoice(session, "1"), "retryCount") = Val(1)


\* the record of the package holds what processSelectedPackages writes when
\* it starts the package, and nothing else
FreshRecord(s, orderId, time) ==
  getProcessedInvoice(s, orderId)
    = [trendyolOrderId |-> orderId, status |-> "pending", processedAt |-> time]

\* the fields an earlier attempt may have left in a record
EarlierFields == {"retryCount", "lastRetryAt", "nextRetryAt", "oblioInvoiceId"}

(***************************************************************************)
(* C38: processSelectedPackages replaces the record of a package that      *)
(* already has one by {trendyolOrderId, status pending, processedAt}: the  *)
(* retryCount, lastRetryAt, nextRetryAt, errorMessage and invoice id of    *)
(* the earlier record are gone while the package is in the pipeline, and   *)
(* when the attempt fails the record carries no retry count and no backoff *)
(* window, so neither the limit of retries nor the backoff rejects the     *)
(* next retry.                                                             *)
(***************************************************************************)
C38_ProcessReplacesRecord ==
  [][\A c \in Calls :
       ProcessStep(c) =>
         /\ \A orderId \in RecordIds :
              (WritesAt(calls'[c], "process:pending", orderId) > 0
               /\ calls'[c].pc = "awaitCreate") =>
                FreshRecord(session', orderId, now)
         /\ \A orderId \in RecordIds :
              WritesAt(calls'[c], "process:failed", orderId) > 0 =>
                LET processedInvoice == getProcessedInvoice(session', orderId)
                    rejection == retryGate(processedInvoice, MaxRetries, orderId, now)
                IN /\ DOMAIN processedInvoice \cap EarlierFields = {}
                   /\ StoredRetryCount(orderId)' = 0
                   /\ ~StartsWith(rejection, "Maximum retry attempts")
                   /\ ~StartsWith(rejection, "Must wait")]_vars

\* the package was processed, retried once (retryCount 1, next retry not
\* before second 2), processed again and failed again: the retry accepted
\* now, still at second 0, is counted as the first
C38_Witness ==
  /\ attempts["1"].process = 2 /\ attempts["1"].retry = 2
  /\ now = 0
  /\ \E c \in Calls :
       /\ calls[c].op = "retry" /\ calls[c].pc = "awaitCreate"
       /\ calls[c].newRetryCount = 1
  /\ StoredRetryCount("1") = 1


(***************************************************************************)
(* Specification of retries under a changing configuration: the caller     *)
(* fetches and processes (invocation 1) and retries (invocation 2), one    *)
(* call at a time; the stored configuration is saved with or without the   *)
(* accounting credentials at any moment, and the working set is fetched    *)
(* with package 1 or without it.                                           *)
(***************************************************************************)
ConfigWorkingSets == { << Pkg1 >>, << Pkg2 >> }

NextConfig ==
  \/ \E c \in Calls : FetchStart(c, TRUE)
  \/ \E c \in Calls, packages \in ConfigWorkingSets : FetchResolved(c, packages)
  \/ \E c \in Calls : ProcessStart(c, TRUE, << "1" >>)
  \/ \E c \in Calls : ProcessConfigResolved(c)
  \/ \E c \in Calls : ProcessImportResolved(c)
  \/ \E c \in Calls : ProcessCreateResolved(c, TopLinkResponse(InvoiceLink))
  \/ \E c \in Calls, message \in CreateErrors : ProcessCreateRejected(c, message)
  \/ \E c \in Calls : ProcessLinkResolved(c)
  \/ ~Suspended(calls[1]) /\ RetryStart(2, FALSE, "1")
  \/ \E c \in Calls : RetryConfigResolved(c)
  \/ \E c \in Calls : RetryImportResolved(c)
  \/ \E c \in Calls : RetryCreateResolved(c, TypedResponse(InvoiceLink))
  \/ \E c \in Calls, message \in CreateErrors : RetryCreateRejected(c, message)
  \/ \E c \in Calls : RetryLinkResolved(c)
  \/ Tick
  \/ \E newConfig \in Configs : SaveEncryptedConfig(newConfig)

SpecConfig == InitPipeline /\ [][NextConfig]_vars

\* the invocation started in slot c threw because the working set or the
\* package in it is missing
RejectedForSession(c, packageId) ==
  /\ RetryInvoked(c, packageId)
  /\ calls'[c].error \in
       { NoSessionMessage,
         "Package " \o packageId \o " not found in current session data" }

\* the retry in slot c, accepted, resumes and finds no accounting
\* configuration
ResumedWithoutConfig(c, packageId) ==
  /\ calls[c].op = "retry" /\ calls[c].pc = "awaitConfig"
  /\ calls[c].packageId = packageId
  /\ calls'[c] # calls[c]
  /\ IsNull(calls[c].cfg) \/ ~Has(calls[c].cfg, "oblio")

\* a retry whose precondition on the session fails leaves the record as it
\* was; a retry that finds no configuration ends with the record failed,
\* counted, and carrying the message, which is not a retryable one
DetectionOrder(c, packageId) ==
  /\ RejectedForSession(c, packageId) =>
       /\ calls'[c].pc = "done" /\ calls'[c].outcome = "thrown"
       /\ calls'[c].writes = << >>
       /\ getProcessedInvoice(session', packageId)
            = getProcessedInvoice(session, packageId)
  /\ ResumedWithoutConfig(c, packageId) =>
       LET processedInvoice == getProcessedInvoice(session', packageId)
       IN /\ calls'[c].pc = "done" /\ calls'[c].outcome = "thrown"
          /\ calls'[c].error = NoConfigMessage
          /\ processedInvoice.status = "failed"
          /\ calls[c].newRetryCount
               = (IF Has(calls[c].processedInvoice, "retryCount")
                  THEN calls[c].processedInvoice.retryCount ELSE 0) + 1
          /\ Get(processedInvoice, "retryCount") = Val(calls[c].newRetryCount)
          /\ Get(processedInvoice, "errorMessage") = Val(NoConfigMessage)
          /\ extractErrorCode(NoConfigMessage) = "NON_RETRYABLE_ERROR"

====
